---- MODULE Spec2Model ----
(***************************************************************************)
(* Model of the jigs runtime: the sparse paged guest memory (PageStore and *)
(* Memory, src/memory.rs), the Module/Instance lifecycle (src/module.rs,   *)
(* src/instance.rs) and the RV32IM instruction decoder and encoder         *)
(* (src/instruction.rs).                                                   *)
(*                                                                         *)
(* The address space is scaled down: the three bit widths of a guest       *)
(* address are bounds of the model, every other size is derived from them  *)
(* exactly as in the source.                                               *)
(***************************************************************************)
EXTENDS Integers, Sequences, FiniteSets, TLC

(* ---------------- bounds of the model ---------------- *)
\* scaled address layout (the source uses 10 / 8 / 14 bits)
L1_INDEX_BITS == 1
L2_INDEX_BITS == 1
PAGE_OFFSET_BITS == 1
\* pages in the PageStore (PageStore::new(total_pages))
TotalPages == 2
\* number of Memory values that may live on the store
NumMems == 2
\* largest max_l2_tables handed to Memory::new
MaxL2Arg == 2
\* longest buffer handed to read / write
MaxLen == 3
\* byte values are 0..MaxByte
MaxByte == 1
\* number of Modules and of Instances
NumMods == 2
NumInsts == 2
\* largest max_code_size handed to Module::new
MaxCodeArg == 4

(* ---------------- program constants (src/memory.rs) ---------------- *)
MEM_SUCCESS == 0
MEM_ERR_NO_L2_TABLES == 1
MEM_ERR_PAGE_LIMIT == 2
MEM_ERR_NO_PAGES_AVAILABLE == 3
MAX_L2_TABLES == 255
UNMAPPED_L2_TABLE == 255
MAX_PAGES == 65535
UNMAPPED_PAGE == 65535
\* src/module.rs
ARM64_CODE_SIZE_MULTIPLIER == 4
\* src/compiler.rs: RET = 0xD65F03C0, as its upper and lower 16 bits
RET_HI == 54879
RET_LO == 960

Pow2(n) == 2 ^ n
PAGE_SIZE == Pow2(PAGE_OFFSET_BITS)
PAGE_OFFSET_MASK == PAGE_SIZE - 1
L1_INDEX_SHIFT == L2_INDEX_BITS + PAGE_OFFSET_BITS
L2_INDEX_SHIFT == PAGE_OFFSET_BITS
L1_TABLE_SIZE == Pow2(L1_INDEX_BITS)
L2_TABLE_SIZE == Pow2(L2_INDEX_BITS)
L1_INDEX_MASK == L1_TABLE_SIZE - 1
L2_INDEX_MASK == L2_TABLE_SIZE - 1
\* width of a guest address (u32 in the source)
ADDRESS_BITS == L1_INDEX_BITS + L2_INDEX_BITS + PAGE_OFFSET_BITS
ADDRESS_SPACE == Pow2(ADDRESS_BITS)

Addresses == 0 .. (ADDRESS_SPACE - 1)
Bytes == 0 .. MaxByte
MemIds == 1 .. NumMems
ModIds == 1 .. NumMods
InstIds == 1 .. NumInsts
\* the null pointer
NULL == 0

\* x & mask for a mask of the form 2^k - 1
AndMask(x, mask) == x % (mask + 1)
\* x >> n
Shr(x, n) == x \div Pow2(n)
\* u32::wrapping_add
WrappingAdd(a, b) == (a + b) % ADDRESS_SPACE
Min(a, b) == IF a < b THEN a ELSE b

VARIABLES
    store,      \* the PageStore
    mem,        \* MemIds -> Memory (NoMemory where none lives)
    modules,    \* ModIds -> Module (NoModule where none lives)
    instances,  \* InstIds -> Instance (NoInstance where none lives)
    halted,     \* "no", or how the program ended: "panic", "fault"
    word,       \* the instruction word handed to Instruction::decode (NoWord if none)
    insn,       \* the Instruction decode returned or encode is called on
    encoded     \* what Instruction::encode returned (NoResult before the call)

memVars == <<store, mem>>
lifeVars == <<modules, instances, halted>>
instrVars == <<word, insn, encoded>>
vars == <<store, mem, modules, instances, halted, word, insn, encoded>>

(* ---------------- PageStore ---------------- *)
\* PageStore::new(total_pages)
PageStoreNew(total_pages) ==
    [ page_memory         |-> [b \in 0 .. (total_pages * PAGE_SIZE - 1) |-> 0],
      available_pages     |-> [i \in 0 .. (total_pages - 1) |-> i],
      num_available_pages |-> total_pages,
      instance_count      |-> 0 ]

\* the store variable after the PageStore was dropped
NoStore ==
    [ page_memory |-> <<>>, available_pages |-> <<>>,
      num_available_pages |-> 0, instance_count |-> 0 ]

\* faulty variant of PageStoreDrop: the store is freed whatever the count
PageStoreDropNoCheck(s) == [panic |-> FALSE, store |-> NoStore]

\* Drop for PageStore: a panic while Memories exist, else the arrays are freed
PageStoreDrop(s) ==
    IF s.instance_count > 0
    THEN [panic |-> TRUE, store |-> s]
    ELSE [panic |-> FALSE, store |-> NoStore]

(* ---------------- Memory ---------------- *)
\* a Memory slot that holds no Memory (never constructed, or dropped)
NoMemory ==
    [ live |-> FALSE, l1_table |-> <<>>, l2_tables |-> <<>>,
      allocated_indices |-> <<>>, num_pages |-> 0, max_pages |-> 0,
      num_l2_tables |-> 0, max_l2_tables |-> 0 ]

\* the value Memory::new builds
MemoryNew(max_pages, max_l2_tables) ==
    [ live              |-> TRUE,
      l1_table          |-> [i \in 0 .. (L1_TABLE_SIZE - 1) |-> UNMAPPED_L2_TABLE],
      l2_tables         |-> [i \in 0 .. (max_l2_tables * L2_TABLE_SIZE - 1) |-> UNMAPPED_PAGE],
      allocated_indices |-> [i \in 0 .. (max_pages - 1) |-> 0],
      num_pages         |-> 0,
      max_pages         |-> max_pages,
      num_l2_tables     |-> 0,
      max_l2_tables     |-> max_l2_tables ]

L1Idx(address) == AndMask(Shr(address, L1_INDEX_SHIFT), L1_INDEX_MASK)
L2Idx(address) == AndMask(Shr(address, L2_INDEX_SHIFT), L2_INDEX_MASK)
PageOffset(address) == AndMask(address, PAGE_OFFSET_MASK)
\* addr & !PAGE_OFFSET_MASK
PageBase(address) == address - PageOffset(address)

\* faulty variant of NewL2Table: the table is assigned but not counted
NewL2TableNoCount(m, l1_idx) ==
    [m EXCEPT !.l1_table[l1_idx] = m.num_l2_tables % 256]

\* faulty variant of NewL2Table: every L1 slot gets the first table of the pool
NewL2TableFirst(m, l1_idx) ==
    [m EXCEPT !.l1_table[l1_idx] = 0,
              !.num_l2_tables = @ + 1]

\* allocate_page, lines 320-325: the next L2 table of the pool goes to the L1 slot
NewL2Table(m, l1_idx) ==
    [m EXCEPT !.l1_table[l1_idx] = m.num_l2_tables % 256,
              !.num_l2_tables = @ + 1]

\* faulty variants of TakePage: the page index is not stored in allocated_indices
TakePageNoTrack(m, s, l2_entry_offset) ==
    LET navail == s.num_available_pages - 1
        page_idx == s.available_pages[navail]
    IN  [ mem |-> [m EXCEPT !.num_pages = @ + 1,
                            !.l2_tables[l2_entry_offset] = page_idx],
          store |-> [s EXCEPT !.num_available_pages = navail],
          status |-> MEM_SUCCESS ]

\* ... the free prefix is not shortened
TakePageStaysFree(m, s, l2_entry_offset) ==
    LET navail == s.num_available_pages - 1
        page_idx == s.available_pages[navail]
    IN  [ mem |-> [m EXCEPT !.allocated_indices[m.num_pages] = page_idx,
                            !.num_pages = @ + 1,
                            !.l2_tables[l2_entry_offset] = page_idx],
          store |-> s,
          status |-> MEM_SUCCESS ]

\* ... the L2 entry is not written
TakePageNoMap(m, s, l2_entry_offset) ==
    LET navail == s.num_available_pages - 1
        page_idx == s.available_pages[navail]
    IN  [ mem |-> [m EXCEPT !.allocated_indices[m.num_pages] = page_idx,
                            !.num_pages = @ + 1],
          store |-> [s EXCEPT !.num_available_pages = navail],
          status |-> MEM_SUCCESS ]

\* allocate_page, lines 353-366: pop a page off the free list, track it, map it
TakePage(m, s, l2_entry_offset) ==
    LET navail == s.num_available_pages - 1
        page_idx == s.available_pages[navail]
    IN  [ mem |-> [m EXCEPT !.allocated_indices[m.num_pages] = page_idx,
                            !.num_pages = @ + 1,
                            !.l2_tables[l2_entry_offset] = page_idx],
          store |-> [s EXCEPT !.num_available_pages = navail],
          status |-> MEM_SUCCESS ]

\* faulty variant of AllocatePage: the page limit is checked before the mapping
AllocatePageLimitFirst(m, s, address) ==
    LET l1_idx == L1Idx(address)
        l2_idx == L2Idx(address)
        needL2 == m.l1_table[l1_idx] = UNMAPPED_L2_TABLE
    IN  IF needL2 /\ m.num_l2_tables >= m.max_l2_tables
        THEN [mem |-> m, store |-> s, status |-> MEM_ERR_NO_L2_TABLES]
        ELSE
          LET m1 == IF needL2 THEN NewL2Table(m, l1_idx) ELSE m
              l2_entry_offset == m1.l1_table[l1_idx] * L2_TABLE_SIZE + l2_idx
          IN  IF m1.num_pages >= m1.max_pages
              THEN [mem |-> m1, store |-> s, status |-> MEM_ERR_PAGE_LIMIT]
              ELSE IF m1.l2_tables[l2_entry_offset] # UNMAPPED_PAGE
              THEN [mem |-> m1, store |-> s, status |-> MEM_SUCCESS]
              ELSE IF s.num_available_pages = 0
              THEN [mem |-> m1, store |-> s, status |-> MEM_ERR_NO_PAGES_AVAILABLE]
              ELSE TakePage(m1, s, l2_entry_offset)

\* faulty variant of AllocatePage: both limits are compared with > in place of >=
AllocatePageOffByOne(m, s, address) ==
    LET l1_idx == L1Idx(address)
        l2_idx == L2Idx(address)
        needL2 == m.l1_table[l1_idx] = UNMAPPED_L2_TABLE
    IN  IF needL2 /\ m.num_l2_tables > m.max_l2_tables
        THEN [mem |-> m, store |-> s, status |-> MEM_ERR_NO_L2_TABLES]
        ELSE
          LET m1 == IF needL2 THEN NewL2Table(m, l1_idx) ELSE m
              l2_entry_offset == m1.l1_table[l1_idx] * L2_TABLE_SIZE + l2_idx
          IN  IF l2_entry_offset \in DOMAIN m1.l2_tables
                 /\ m1.l2_tables[l2_entry_offset] # UNMAPPED_PAGE
              THEN [mem |-> m1, store |-> s, status |-> MEM_SUCCESS]
              ELSE IF m1.num_pages > m1.max_pages
              THEN [mem |-> m1, store |-> s, status |-> MEM_ERR_PAGE_LIMIT]
              ELSE IF s.num_available_pages = 0
              THEN [mem |-> m1, store |-> s, status |-> MEM_ERR_NO_PAGES_AVAILABLE]
              ELSE [ mem |-> [m1 EXCEPT !.num_pages = @ + 1],
                     store |-> [s EXCEPT !.num_available_pages = @ - 1],
                     status |-> MEM_SUCCESS ]

\* faulty variant of AllocatePage: the page is popped before the page limit is
\* looked at
AllocatePagePopsFirst(m, s, address) ==
    LET l1_idx == L1Idx(address)
        l2_idx == L2Idx(address)
        needL2 == m.l1_table[l1_idx] = UNMAPPED_L2_TABLE
    IN  IF needL2 /\ m.num_l2_tables >= m.max_l2_tables
        THEN [mem |-> m, store |-> s, status |-> MEM_ERR_NO_L2_TABLES]
        ELSE
          LET m1 == IF needL2 THEN NewL2Table(m, l1_idx) ELSE m
              l2_entry_offset == m1.l1_table[l1_idx] * L2_TABLE_SIZE + l2_idx
          IN  IF m1.l2_tables[l2_entry_offset] # UNMAPPED_PAGE
              THEN [mem |-> m1, store |-> s, status |-> MEM_SUCCESS]
              ELSE IF s.num_available_pages = 0
              THEN [mem |-> m1, store |-> s, status |-> MEM_ERR_NO_PAGES_AVAILABLE]
              ELSE IF m1.num_pages >= m1.max_pages
              THEN [ mem |-> m1,
                     store |-> [s EXCEPT !.num_available_pages = @ - 1],
                     status |-> MEM_ERR_PAGE_LIMIT ]
              ELSE TakePage(m1, s, l2_entry_offset)

\* Memory::allocate_page: the Memory, the store and the status after the call
AllocatePage(m, s, address) ==
    LET l1_idx == L1Idx(address)
        l2_idx == L2Idx(address)
        needL2 == m.l1_table[l1_idx] = UNMAPPED_L2_TABLE
    IN  IF needL2 /\ m.num_l2_tables >= m.max_l2_tables
        THEN [mem |-> m, store |-> s, status |-> MEM_ERR_NO_L2_TABLES]
        ELSE
          LET m1 == IF needL2 THEN NewL2Table(m, l1_idx) ELSE m
              l2_entry_offset == m1.l1_table[l1_idx] * L2_TABLE_SIZE + l2_idx
          IN  IF m1.l2_tables[l2_entry_offset] # UNMAPPED_PAGE
              THEN [mem |-> m1, store |-> s, status |-> MEM_SUCCESS]
              ELSE IF m1.num_pages >= m1.max_pages
              THEN [mem |-> m1, store |-> s, status |-> MEM_ERR_PAGE_LIMIT]
              ELSE IF s.num_available_pages = 0
              THEN [mem |-> m1, store |-> s, status |-> MEM_ERR_NO_PAGES_AVAILABLE]
              ELSE TakePage(m1, s, l2_entry_offset)

\* the page index the page tables give for an address (UNMAPPED_PAGE if none)
Lookup(m, address) ==
    LET l2_table_idx == m.l1_table[L1Idx(address)]
    IN  IF l2_table_idx = UNMAPPED_L2_TABLE
        THEN UNMAPPED_PAGE
        ELSE m.l2_tables[l2_table_idx * L2_TABLE_SIZE + L2Idx(address)]

\* faulty variant of ReadChunk: an unmapped page leaves the buffer as it was
ReadChunkNoFill(m, s, addr, offset, bytes_in_page, buffer) ==
    LET page_idx == Lookup(m, addr)
        page_addr == page_idx * PAGE_SIZE + PageOffset(addr)
    IN  [i \in 1 .. Len(buffer) |->
           IF i > offset /\ i <= offset + bytes_in_page /\ page_idx # UNMAPPED_PAGE
           THEN s.page_memory[page_addr + (i - 1 - offset)]
           ELSE buffer[i]]

\* read, lines 403-429: one chunk of the buffer is zero-filled or copied from its page
ReadChunk(m, s, addr, offset, bytes_in_page, buffer) ==
    LET page_idx == Lookup(m, addr)
        page_addr == page_idx * PAGE_SIZE + PageOffset(addr)
    IN  [i \in 1 .. Len(buffer) |->
           IF i > offset /\ i <= offset + bytes_in_page
           THEN IF page_idx = UNMAPPED_PAGE
                THEN 0
                ELSE s.page_memory[page_addr + (i - 1 - offset)]
           ELSE buffer[i]]

\* the loop of Memory::read: the buffer after the chunks from offset on are read
RECURSIVE ReadLoop(_, _, _, _, _)
ReadLoop(m, s, addr, offset, buffer) ==
    IF offset >= Len(buffer) THEN buffer
    ELSE
      LET bytes_in_page == Min(PAGE_SIZE - PageOffset(addr), Len(buffer) - offset)
      IN  ReadLoop(m, s, WrappingAdd(addr, bytes_in_page), offset + bytes_in_page,
                   ReadChunk(m, s, addr, offset, bytes_in_page, buffer))

\* Memory::read: the buffer after the call
Read(m, s, address, buffer) == ReadLoop(m, s, address, 0, buffer)

\* faulty variant of ReadCall: the page of the start address is allocated first
ReadCallAllocates(m, s, address, buffer) ==
    LET r == AllocatePage(m, s, address)
    IN  [mem |-> r.mem, store |-> r.store, buffer |-> Read(r.mem, r.store, address, buffer)]

\* Memory::read as a call: it takes &self and only loads through its pointers,
\* so the Memory and the store come back as they went in
ReadCall(m, s, address, buffer) ==
    [mem |-> m, store |-> s, buffer |-> Read(m, s, address, buffer)]

\* faulty variant of WriteChunk: every chunk is copied from the start of the buffer
WriteChunkFromStart(m, s, addr, offset, bytes_in_page, buffer) ==
    LET page_idx == Lookup(m, addr)
        page_addr == page_idx * PAGE_SIZE + PageOffset(addr)
    IN  [s EXCEPT !.page_memory =
           [b \in DOMAIN s.page_memory |->
              IF b >= page_addr /\ b < page_addr + bytes_in_page
              THEN buffer[1 + (b - page_addr)]
              ELSE s.page_memory[b]]]

\* write, lines 479-494: one chunk of the buffer is copied into its page
WriteChunk(m, s, addr, offset, bytes_in_page, buffer) ==
    LET page_idx == Lookup(m, addr)
        page_addr == page_idx * PAGE_SIZE + PageOffset(addr)
    IN  [s EXCEPT !.page_memory =
           [b \in DOMAIN s.page_memory |->
              IF b >= page_addr /\ b < page_addr + bytes_in_page
              THEN buffer[offset + 1 + (b - page_addr)]
              ELSE s.page_memory[b]]]

\* the loop of Memory::write
RECURSIVE WriteLoop(_, _, _, _, _)
WriteLoop(m, s, addr, offset, buffer) ==
    IF offset >= Len(buffer)
    THEN [mem |-> m, store |-> s, status |-> MEM_SUCCESS]
    ELSE
      LET bytes_in_page == Min(PAGE_SIZE - PageOffset(addr), Len(buffer) - offset)
          a == AllocatePage(m, s, PageBase(addr))
      IN  IF a.status # MEM_SUCCESS THEN a
          ELSE WriteLoop(a.mem,
                         WriteChunk(a.mem, a.store, addr, offset, bytes_in_page, buffer),
                         WrappingAdd(addr, bytes_in_page), offset + bytes_in_page, buffer)

\* faulty variant of Write: a failing write gives back what it had done
WriteAllOrNothing(m, s, address, buffer) ==
    LET r == WriteLoop(m, s, address, 0, buffer)
    IN  IF r.status # MEM_SUCCESS
        THEN [mem |-> m, store |-> s, status |-> r.status]
        ELSE r

\* Memory::write: the Memory, the store and the status after the call
Write(m, s, address, buffer) == WriteLoop(m, s, address, 0, buffer)

\* faulty variant of ReturnPage: the page is zeroed but not pushed
ReturnPageNoPush(s, page_idx) ==
    LET offset == page_idx * PAGE_SIZE
    IN  [s EXCEPT !.page_memory =
                     [b \in DOMAIN s.page_memory |->
                        IF b >= offset /\ b < offset + PAGE_SIZE THEN 0 ELSE s.page_memory[b]]]

\* faulty variant of ReturnPage: the page goes under the free list, not on top
ReturnPagePushBottom(s, page_idx) ==
    LET offset == page_idx * PAGE_SIZE
    IN  [s EXCEPT !.page_memory =
                     [b \in DOMAIN s.page_memory |->
                        IF b >= offset /\ b < offset + PAGE_SIZE THEN 0 ELSE s.page_memory[b]],
                  !.available_pages =
                     [i \in DOMAIN s.available_pages |->
                        IF i = 0 THEN page_idx
                        ELSE IF i <= s.num_available_pages THEN s.available_pages[i - 1]
                        ELSE s.available_pages[i]],
                  !.num_available_pages = @ + 1]

\* faulty variant of ReturnPage: the page is pushed with what it holds
ReturnPageNoZero(s, page_idx) ==
    [s EXCEPT !.available_pages[s.num_available_pages] = page_idx,
              !.num_available_pages = @ + 1]

\* reset, lines 520-529: one page is zeroed and pushed on the free list
ReturnPage(s, page_idx) ==
    LET offset == page_idx * PAGE_SIZE
    IN  [s EXCEPT !.page_memory =
                     [b \in DOMAIN s.page_memory |->
                        IF b >= offset /\ b < offset + PAGE_SIZE THEN 0 ELSE s.page_memory[b]],
                  !.available_pages[s.num_available_pages] = page_idx,
                  !.num_available_pages = @ + 1]

\* faulty variant of ReturnPages: the loop starts one entry late
RECURSIVE ReturnPagesSkipFirst(_, _, _)
ReturnPagesSkipFirst(m, s, i) ==
    IF i + 1 >= m.num_pages THEN s
    ELSE ReturnPagesSkipFirst(m, ReturnPage(s, m.allocated_indices[i + 1]), i + 1)

\* the first loop of Memory::reset: the pages i.. of allocated_indices go back
RECURSIVE ReturnPages(_, _, _)
ReturnPages(m, s, i) ==
    IF i >= m.num_pages THEN s
    ELSE ReturnPages(m, ReturnPage(s, m.allocated_indices[i]), i + 1)

\* faulty variant of Reset: the tables are cleared but the pages are kept
ResetKeepsPages(m, s) ==
    IF m.num_pages = 0
    THEN [mem |-> m, store |-> s]
    ELSE [ mem |-> [m EXCEPT
                      !.l1_table = [i \in DOMAIN m.l1_table |-> UNMAPPED_L2_TABLE],
                      !.l2_tables = [i \in DOMAIN m.l2_tables |->
                                       IF i < m.num_l2_tables * L2_TABLE_SIZE
                                       THEN UNMAPPED_PAGE ELSE m.l2_tables[i]],
                      !.num_l2_tables = 0,
                      !.num_pages = 0],
           store |-> s ]

\* faulty variant of Reset: the pages go back to the store but num_pages stays
ResetKeepsCount(m, s) ==
    IF m.num_pages = 0
    THEN [mem |-> m, store |-> s]
    ELSE [ mem |-> [m EXCEPT
                      !.l1_table = [i \in DOMAIN m.l1_table |-> UNMAPPED_L2_TABLE],
                      !.l2_tables = [i \in DOMAIN m.l2_tables |->
                                       IF i < m.num_l2_tables * L2_TABLE_SIZE
                                       THEN UNMAPPED_PAGE ELSE m.l2_tables[i]],
                      !.num_l2_tables = 0],
           store |-> ReturnPages(m, s, 0) ]

\* Memory::reset
Reset(m, s) ==
    IF m.num_pages = 0
    THEN [mem |-> m, store |-> s]
    ELSE [ mem |-> [m EXCEPT
                      !.l1_table = [i \in DOMAIN m.l1_table |-> UNMAPPED_L2_TABLE],
                      !.l2_tables = [i \in DOMAIN m.l2_tables |->
                                       IF i < m.num_l2_tables * L2_TABLE_SIZE
                                       THEN UNMAPPED_PAGE ELSE m.l2_tables[i]],
                      !.num_l2_tables = 0,
                      !.num_pages = 0],
           store |-> ReturnPages(m, s, 0) ]

\* faulty variant of DropStore: the pages go back but the count stays
DropStoreKeepsCount(m, s) == Reset(m, s).store

\* Drop for Memory: the store after reset and instance_count -= 1
DropStore(m, s) == [Reset(m, s).store EXCEPT !.instance_count = @ - 1]

(* ---------------- Module and Instance ---------------- *)
NoModule ==
    [ live |-> FALSE, instance_count |-> 0, memory_ptr |-> NULL,
      code_buffer |-> <<>>, code_buffer_size |-> 0, code_size |-> 0, prot |-> "none" ]

\* the value Module::new builds: the region is mapped read/write
ModuleNew(max_code_size) ==
    [ live             |-> TRUE,
      instance_count   |-> 0,
      memory_ptr       |-> NULL,
      code_buffer      |-> [i \in 1 .. max_code_size * ARM64_CODE_SIZE_MULTIPLIER |-> 0],
      code_buffer_size |-> max_code_size * ARM64_CODE_SIZE_MULTIPLIER,
      code_size        |-> 0,
      prot             |-> "rw" ]

NoInstance == [live |-> FALSE, module |-> NULL]

\* faulty variant of ModuleDrop: the region is unmapped whatever the count
ModuleDropNoCheck(mod) == [panic |-> FALSE, module |-> NoModule]

\* Drop for Module: a panic while instances are attached, else munmap
ModuleDrop(mod) ==
    IF mod.instance_count # 0
    THEN [panic |-> TRUE, module |-> mod]
    ELSE [panic |-> FALSE, module |-> NoModule]

\* the value Instance::new builds; the boxed Memory of Instance i has address i
InstanceNew == [live |-> TRUE, module |-> NULL]

\* u32::to_le_bytes of the word hi * 2^16 + lo
ToLeBytes(hi, lo) == <<lo % 256, lo \div 256, hi % 256, hi \div 256>>

\* faulty variant of Compile: one RET word for each instruction, none for none
RECURSIVE CompilePerInstruction(_)
CompilePerInstruction(code_len) ==
    IF code_len < 4 THEN <<>>
    ELSE ToLeBytes(RET_HI, RET_LO) \o CompilePerInstruction(code_len - 4)

\* Compiler::compile: one RET word whatever the instructions, as bytes
Compile(code_len) == ToLeBytes(RET_HI, RET_LO)

\* arm64_code.len()
CompiledLen(code_len) == Len(Compile(code_len))

\* ptr::copy_nonoverlapping of the compiled code to the start of the code buffer
CopyCode(buffer, arm64_code) ==
    [i \in 1 .. Len(buffer) |-> IF i <= Len(arm64_code) THEN arm64_code[i] ELSE buffer[i]]

\* Module::code
Code(mod) == IF mod.code_size = 0 THEN <<>> ELSE SubSeq(mod.code_buffer, 1, mod.code_size)

\* what a store into a mapping without write permission does: the access is
\* outside what the language defines, the platform decides
RxStoreOutcomes == {"fault", "stored"}

\* faulty variant of Detach: the Module's memory_ptr slot keeps its value
DetachKeepsSlot(i, mods, insts) ==
    LET m == insts[i].module
    IN  IF m # NULL
        THEN [ modules   |-> [mods EXCEPT ![m].instance_count = @ - 1],
               instances |-> [insts EXCEPT ![i].module = NULL] ]
        ELSE [modules |-> mods, instances |-> insts]

\* Instance::detach on the pair of all Modules and all Instances
Detach(i, mods, insts) ==
    LET m == insts[i].module
    IN  IF m # NULL
        THEN [ modules   |-> [mods EXCEPT ![m].instance_count = @ - 1,
                                          ![m].memory_ptr = NULL],
               instances |-> [insts EXCEPT ![i].module = NULL] ]
        ELSE [modules |-> mods, instances |-> insts]

\* Drop for Instance: detach, then the Instance and its Memory are gone
DropInst(i, mods, insts) ==
    LET r == Detach(i, mods, insts)
    IN  [modules |-> r.modules, instances |-> [r.instances EXCEPT ![i] = NoInstance]]

\* faulty variant of Attach: an attached Instance is not detached first
AttachNoDetach(i, m, mods, insts) ==
    [ modules   |-> [mods EXCEPT ![m].instance_count = @ + 1,
                                 ![m].memory_ptr = i],
      instances |-> [insts EXCEPT ![i].module = m] ]

\* Instance::attach
Attach(i, m, mods, insts) ==
    LET d == IF insts[i].module # NULL
             THEN Detach(i, mods, insts)
             ELSE [modules |-> mods, instances |-> insts]
    IN  [ modules   |-> [d.modules EXCEPT ![m].instance_count = @ + 1,
                                          ![m].memory_ptr = i],
          instances |-> [d.instances EXCEPT ![i].module = m] ]

\* faulty variant of SetCode: the size is checked before the attached Instances
SetCodeSizeFirst(mod, code_len, rx_store) ==
    IF code_len * ARM64_CODE_SIZE_MULTIPLIER > mod.code_buffer_size
    THEN [module |-> mod, result |-> "CodeTooLarge", fault |-> FALSE]
    ELSE IF mod.instance_count # 0
    THEN [module |-> mod, result |-> "InstancesAttached", fault |-> FALSE]
    ELSE IF mod.prot # "rw" /\ rx_store = "fault"
    THEN [ module |-> [mod EXCEPT !.code_size = CompiledLen(code_len)],
           result |-> "fault", fault |-> TRUE ]
    ELSE [ module |-> [mod EXCEPT !.code_size = CompiledLen(code_len),
                                  !.code_buffer = CopyCode(@, Compile(code_len)),
                                  !.prot = "rx"],
           result |-> "Ok", fault |-> FALSE ]

\* Module::set_code on code of code_len bytes: the Module after the call, what
\* the call returns, and whether the copy ended the program; rx_store is what
\* the platform does with a store into the region once it is read/execute
SetCode(mod, code_len, rx_store) ==
    IF mod.instance_count # 0
    THEN [module |-> mod, result |-> "InstancesAttached", fault |-> FALSE]
    ELSE IF code_len * ARM64_CODE_SIZE_MULTIPLIER > mod.code_buffer_size
    THEN [module |-> mod, result |-> "CodeTooLarge", fault |-> FALSE]
    ELSE IF mod.prot # "rw" /\ rx_store = "fault"
    THEN [ module |-> [mod EXCEPT !.code_size = CompiledLen(code_len)],
           result |-> "fault", fault |-> TRUE ]
    ELSE [ module |-> [mod EXCEPT !.code_size = CompiledLen(code_len),
                                  !.code_buffer = CopyCode(@, Compile(code_len)),
                                  !.prot = "rx"],
           result |-> "Ok", fault |-> FALSE ]

\* faulty variant of CallFunction: the code is called without looking at its size
CallFunctionNoCodeCheck(inst, mods) ==
    IF inst.module = NULL
    THEN [result |-> "Instance not attached to module", called |-> FALSE]
    ELSE [result |-> "Ok", called |-> TRUE]

\* Instance::call_function: what the call returns and whether the compiled code
\* was called
CallFunction(inst, mods) ==
    IF inst.module = NULL
    THEN [result |-> "Instance not attached to module", called |-> FALSE]
    ELSE IF Len(Code(mods[inst.module])) = 0
    THEN [result |-> "Module has no compiled code", called |-> FALSE]
    ELSE [result |-> "Ok", called |-> TRUE]

(* ---------------- Instruction (src/instruction.rs) ---------------- *)
\* a u32 is the function from its bit positions 0 .. 31 to the bits
BitPos == 0 .. 31
\* the u32 with the upper 16 bits hi and the lower 16 bits lo
FromHalves(hi, lo) ==
    [i \in BitPos |-> IF i < 16 THEN (lo \div (2 ^ i)) % 2 ELSE (hi \div (2 ^ (i - 16))) % 2]
\* the u32 of a number below 2^16
U32(n) == FromHalves(0, n)
\* a & b, a | b, !a, w >> n, w << n on u32
BitAnd(a, b) == [i \in BitPos |-> a[i] * b[i]]
BitOr(a, b) == [i \in BitPos |-> IF a[i] + b[i] > 0 THEN 1 ELSE 0]
BitNot(a) == [i \in BitPos |-> 1 - a[i]]
ShiftRight(w, n) == [i \in BitPos |-> IF i + n <= 31 THEN w[i + n] ELSE 0]
ShiftLeft(w, n) == [i \in BitPos |-> IF i - n >= 0 THEN w[i - n] ELSE 0]
\* the number a u32 with bit 31 clear stands for
RECURSIVE ValueFrom(_, _)
ValueFrom(w, i) == IF i > 30 THEN 0 ELSE (IF w[i] = 1 THEN 2 ^ i ELSE 0) + ValueFrom(w, i + 1)
Value(w) == ValueFrom(w, 0)
\* w as u8
AsU8(w) == Value(BitAnd(w, U32(255)))
\* w as i32
AsI32(w) == IF w[31] = 1 THEN 0 - (Value(BitNot(w)) + 1) ELSE Value(w)
\* v as u32 for a u8 v
U8AsU32(v) == U32(v)

\* masks and shifts for extracting instruction fields
OPCODE_MASK == FromHalves(0, 127)
RD_MASK == FromHalves(0, 3968)
RD_SHIFT == 7
FUNCT3_MASK == FromHalves(0, 28672)
FUNCT3_SHIFT == 12
RS1_MASK == FromHalves(15, 32768)
RS1_SHIFT == 15
RS2_MASK == FromHalves(496, 0)
RS2_SHIFT == 20
FUNCT7_MASK == FromHalves(65024, 0)
FUNCT7_SHIFT == 25
IMM_I_MASK == FromHalves(65520, 0)
IMM_I_SHIFT == 20
IMM_S_11_5_MASK == FromHalves(65024, 0)
IMM_S_11_5_SHIFT == 25
IMM_S_4_0_MASK == FromHalves(0, 3968)
IMM_S_4_0_SHIFT == 7
IMM_B_12_MASK == FromHalves(32768, 0)
IMM_B_12_SHIFT == 31
IMM_B_11_MASK == FromHalves(0, 128)
IMM_B_11_SHIFT == 7
IMM_B_10_5_MASK == FromHalves(32256, 0)
IMM_B_10_5_SHIFT == 25
IMM_B_4_1_MASK == FromHalves(0, 3840)
IMM_B_4_1_SHIFT == 8
IMM_J_20_MASK == FromHalves(32768, 0)
IMM_J_20_SHIFT == 31
IMM_J_19_12_MASK == FromHalves(15, 61440)
IMM_J_19_12_SHIFT == 12
IMM_J_11_MASK == FromHalves(16, 0)
IMM_J_11_SHIFT == 20
IMM_J_10_1_MASK == FromHalves(32736, 0)
IMM_J_10_1_SHIFT == 21
IMM_U_MASK == FromHalves(65535, 61440)
IMM_U_SHIFT == 12

\* no word, no Instruction, no result of encode
NoWord == <<>>
NoInsn == [op |-> "none"]
NoResult == [ok |-> FALSE, err |-> "none"]

\* Instruction::Unsupported(word)
Unsupported(w) == [op |-> "Unsupported", word |-> w]
\* the three-register, register-immediate, shift, store / branch, and
\* upper-immediate / jump variants
RType(op, rd, rs1, rs2) == [op |-> op, rd |-> rd, rs1 |-> rs1, rs2 |-> rs2]
IType(op, rd, rs1, imm) == [op |-> op, rd |-> rd, rs1 |-> rs1, imm |-> imm]
ShiftType(op, rd, rs1, shamt) == [op |-> op, rd |-> rd, rs1 |-> rs1, shamt |-> shamt]
SType(op, rs1, rs2, imm) == [op |-> op, rs1 |-> rs1, rs2 |-> rs2, imm |-> imm]
UType(op, rd, imm) == [op |-> op, rd |-> rd, imm |-> imm]
\* unreachable!() was reached
Panic == [op |-> "panic"]

\* the field extractions of decode
Funct3Of(w) == AsU8(BitAnd(ShiftRight(BitAnd(w, FUNCT3_MASK), FUNCT3_SHIFT), U32(7)))
Funct7Of(w) == Value(ShiftRight(BitAnd(w, FUNCT7_MASK), FUNCT7_SHIFT))
RdOf(w) == AsU8(ShiftRight(BitAnd(w, RD_MASK), RD_SHIFT))
Rs1Of(w) == AsU8(ShiftRight(BitAnd(w, RS1_MASK), RS1_SHIFT))
Rs2Of(w) == AsU8(ShiftRight(BitAnd(w, RS2_MASK), RS2_SHIFT))
\* imm_raw of the I-type formats, and its sign extension from 12 bits
ImmIRaw(w) == ShiftRight(BitAnd(w, IMM_I_MASK), IMM_I_SHIFT)
\* faulty variant of SignExtend12: the 12 bits are taken as unsigned
ZeroExtend12(imm_raw) == AsI32(imm_raw)

\* decode, the sign extension of a 12-bit immediate
SignExtend12(imm_raw) ==
    IF Value(BitAnd(imm_raw, U32(2048))) # 0
    THEN AsI32(BitOr(imm_raw, FromHalves(65535, 61440)))
    ELSE AsI32(imm_raw)

\* decode, opcode 0x33: R-type instructions
DecodeR(w) ==
    LET funct3 == Funct3Of(w)
        funct7 == Funct7Of(w)
        rd == RdOf(w)
        rs1 == Rs1Of(w)
        rs2 == Rs2Of(w)
        key == <<funct3, funct7>>
    IN  CASE key = <<0, 0>> -> RType("Add", rd, rs1, rs2)
          [] key = <<0, 32>> -> RType("Sub", rd, rs1, rs2)
          [] key = <<1, 0>> -> RType("Sll", rd, rs1, rs2)
          [] key = <<5, 0>> -> RType("Srl", rd, rs1, rs2)
          [] key = <<5, 32>> -> RType("Sra", rd, rs1, rs2)
          [] key = <<2, 0>> -> RType("Slt", rd, rs1, rs2)
          [] key = <<3, 0>> -> RType("Sltu", rd, rs1, rs2)
          [] key = <<4, 0>> -> RType("Xor", rd, rs1, rs2)
          [] key = <<6, 0>> -> RType("Or", rd, rs1, rs2)
          [] key = <<7, 0>> -> RType("And", rd, rs1, rs2)
          [] key = <<0, 1>> -> RType("Mul", rd, rs1, rs2)
          [] key = <<1, 1>> -> RType("Mulh", rd, rs1, rs2)
          [] key = <<2, 1>> -> RType("Mulhsu", rd, rs1, rs2)
          [] key = <<3, 1>> -> RType("Mulhu", rd, rs1, rs2)
          [] key = <<4, 1>> -> RType("Div", rd, rs1, rs2)
          [] key = <<5, 1>> -> RType("Divu", rd, rs1, rs2)
          [] key = <<6, 1>> -> RType("Rem", rd, rs1, rs2)
          [] key = <<7, 1>> -> RType("Remu", rd, rs1, rs2)
          [] OTHER -> Unsupported(w)

\* decode, opcode 0x13: I-type immediate instructions
DecodeOpImm(w) ==
    LET funct3 == Funct3Of(w)
        rd == RdOf(w)
        rs1 == Rs1Of(w)
        imm_raw == ImmIRaw(w)
        imm == SignExtend12(imm_raw)
        shamt == AsU8(BitAnd(imm_raw, U32(31)))
        upper_bits == Value(BitAnd(ShiftRight(imm_raw, 5), U32(127)))
    IN  CASE funct3 = 0 -> IType("Addi", rd, rs1, imm)
          [] funct3 = 1 -> IF upper_bits = 0
                           THEN ShiftType("Slli", rd, rs1, shamt)
                           ELSE Unsupported(w)
          [] funct3 = 2 -> IType("Slti", rd, rs1, imm)
          [] funct3 = 3 -> IType("Sltiu", rd, rs1, imm)
          [] funct3 = 4 -> IType("Xori", rd, rs1, imm)
          [] funct3 = 5 -> IF upper_bits = 0
                           THEN ShiftType("Srli", rd, rs1, shamt)
                           ELSE IF upper_bits = 32
                           THEN ShiftType("Srai", rd, rs1, shamt)
                           ELSE Unsupported(w)
          [] funct3 = 6 -> IType("Ori", rd, rs1, imm)
          [] funct3 = 7 -> IType("Andi", rd, rs1, imm)
          [] OTHER -> Panic

\* decode, opcode 0x03: load instructions
DecodeLoad(w) ==
    LET funct3 == Funct3Of(w)
        rd == RdOf(w)
        rs1 == Rs1Of(w)
        imm == SignExtend12(ImmIRaw(w))
    IN  CASE funct3 = 0 -> IType("Lb", rd, rs1, imm)
          [] funct3 = 1 -> IType("Lh", rd, rs1, imm)
          [] funct3 = 2 -> IType("Lw", rd, rs1, imm)
          [] funct3 = 4 -> IType("Lbu", rd, rs1, imm)
          [] funct3 = 5 -> IType("Lhu", rd, rs1, imm)
          [] OTHER -> Unsupported(w)

\* decode, opcode 0x23: store instructions
DecodeStore(w) ==
    LET funct3 == Funct3Of(w)
        rs1 == Rs1Of(w)
        rs2 == Rs2Of(w)
        imm_11_5 == ShiftRight(BitAnd(w, IMM_S_11_5_MASK), IMM_S_11_5_SHIFT)
        imm_4_0 == ShiftRight(BitAnd(w, IMM_S_4_0_MASK), IMM_S_4_0_SHIFT)
        imm_raw == BitOr(ShiftLeft(imm_11_5, 5), imm_4_0)
        imm == SignExtend12(imm_raw)
    IN  CASE funct3 = 0 -> SType("Sb", rs1, rs2, imm)
          [] funct3 = 1 -> SType("Sh", rs1, rs2, imm)
          [] funct3 = 2 -> SType("Sw", rs1, rs2, imm)
          [] OTHER -> Unsupported(w)

\* decode, opcode 0x63: branch instructions
DecodeBranch(w) ==
    LET funct3 == Funct3Of(w)
        rs1 == Rs1Of(w)
        rs2 == Rs2Of(w)
        bit_12 == ShiftRight(BitAnd(w, IMM_B_12_MASK), IMM_B_12_SHIFT)
        bit_11 == ShiftRight(BitAnd(w, IMM_B_11_MASK), IMM_B_11_SHIFT)
        bits_10_5 == ShiftRight(BitAnd(w, IMM_B_10_5_MASK), IMM_B_10_5_SHIFT)
        bits_4_1 == ShiftRight(BitAnd(w, IMM_B_4_1_MASK), IMM_B_4_1_SHIFT)
        imm_raw == BitOr(BitOr(ShiftLeft(bit_12, 12), ShiftLeft(bit_11, 11)),
                         BitOr(ShiftLeft(bits_10_5, 5), ShiftLeft(bits_4_1, 1)))
        imm == IF Value(BitAnd(imm_raw, U32(4096))) # 0
               THEN AsI32(BitOr(imm_raw, FromHalves(65535, 57344)))
               ELSE AsI32(imm_raw)
    IN  CASE funct3 = 0 -> SType("Beq", rs1, rs2, imm)
          [] funct3 = 1 -> SType("Bne", rs1, rs2, imm)
          [] funct3 = 4 -> SType("Blt", rs1, rs2, imm)
          [] funct3 = 5 -> SType("Bge", rs1, rs2, imm)
          [] funct3 = 6 -> SType("Bltu", rs1, rs2, imm)
          [] funct3 = 7 -> SType("Bgeu", rs1, rs2, imm)
          [] OTHER -> Unsupported(w)

\* decode, opcode 0x6F: JAL
DecodeJal(w) ==
    LET rd == RdOf(w)
        bit_20 == ShiftRight(BitAnd(w, IMM_J_20_MASK), IMM_J_20_SHIFT)
        bits_19_12 == ShiftRight(BitAnd(w, IMM_J_19_12_MASK), IMM_J_19_12_SHIFT)
        bit_11 == ShiftRight(BitAnd(w, IMM_J_11_MASK), IMM_J_11_SHIFT)
        bits_10_1 == ShiftRight(BitAnd(w, IMM_J_10_1_MASK), IMM_J_10_1_SHIFT)
        imm_raw == BitOr(BitOr(ShiftLeft(bit_20, 20), ShiftLeft(bits_19_12, 12)),
                         BitOr(ShiftLeft(bit_11, 11), ShiftLeft(bits_10_1, 1)))
        imm == IF Value(BitAnd(imm_raw, FromHalves(16, 0))) # 0
               THEN AsI32(BitOr(imm_raw, FromHalves(65504, 0)))
               ELSE AsI32(imm_raw)
    IN  UType("Jal", rd, imm)

\* decode, opcode 0x67: JALR
DecodeJalr(w) ==
    LET funct3 == Funct3Of(w)
        rd == RdOf(w)
        rs1 == Rs1Of(w)
        imm == SignExtend12(ImmIRaw(w))
    IN  IF funct3 = 0 THEN IType("Jalr", rd, rs1, imm) ELSE Unsupported(w)

\* decode, opcodes 0x37 and 0x17: LUI and AUIPC
DecodeUpper(op, w) ==
    LET rd == RdOf(w)
        imm == Value(ShiftRight(BitAnd(w, IMM_U_MASK), IMM_U_SHIFT))
    IN  UType(op, rd, imm)

\* faulty variant of DecodeSystem: rd, rs1 and funct3 are not looked at
DecodeSystemLoose(w) ==
    LET imm == Value(ImmIRaw(w))
    IN  CASE imm = 0 -> [op |-> "Ecall"]
          [] imm = 1 -> [op |-> "Ebreak"]
          [] OTHER -> Unsupported(w)

\* decode, opcode 0x73: system instructions
DecodeSystem(w) ==
    LET funct3 == Funct3Of(w)
        rd == RdOf(w)
        rs1 == Rs1Of(w)
        imm == Value(ImmIRaw(w))
    IN  IF funct3 = 0 /\ rd = 0 /\ rs1 = 0
        THEN CASE imm = 0 -> [op |-> "Ecall"]
               [] imm = 1 -> [op |-> "Ebreak"]
               [] OTHER -> Unsupported(w)
        ELSE Unsupported(w)

\* Instruction::decode
Decode(w) ==
    LET opcode == Value(BitAnd(w, OPCODE_MASK))
    IN  CASE opcode = 51 -> DecodeR(w)
          [] opcode = 19 -> DecodeOpImm(w)
          [] opcode = 3 -> DecodeLoad(w)
          [] opcode = 35 -> DecodeStore(w)
          [] opcode = 99 -> DecodeBranch(w)
          [] opcode = 111 -> DecodeJal(w)
          [] opcode = 103 -> DecodeJalr(w)
          [] opcode = 55 -> DecodeUpper("Lui", w)
          [] opcode = 23 -> DecodeUpper("Auipc", w)
          [] opcode = 115 -> DecodeSystem(w)
          [] OTHER -> Unsupported(w)

\* encode_r_type
EncodeRType(opcode, rd, funct3, rs1, rs2, funct7) ==
    BitOr(BitOr(BitOr(U32(opcode), ShiftLeft(U8AsU32(rd), RD_SHIFT)),
                BitOr(ShiftLeft(U32(funct3), FUNCT3_SHIFT), ShiftLeft(U8AsU32(rs1), RS1_SHIFT))),
          BitOr(ShiftLeft(U8AsU32(rs2), RS2_SHIFT), ShiftLeft(U32(funct7), FUNCT7_SHIFT)))

\* Instruction::encode
Encode(v) ==
    IF v.op = "Add"
    THEN [ok |-> TRUE, word |-> EncodeRType(51, v.rd, 0, v.rs1, v.rs2, 0)]
    ELSE [ok |-> FALSE, err |-> "NotImplemented", name |-> v.op]

(* ---------------- inputs ---------------- *)
\* the buffers handed to write: every length up to MaxLen, neighbouring
\* bytes different
Buffers == { [i \in 1 .. n |-> (i + k) % (MaxByte + 1)] : n \in 0 .. MaxLen, k \in Bytes }
\* what a read buffer holds before the call
Garbage(n, k) == [i \in 1 .. n |-> k]

\* what Memory::new is called with
AllConfigs == (0 .. TotalPages) \X (0 .. MaxL2Arg)
SharedConfigs == {<<1, 1>>, <<TotalPages, MaxL2Arg>>}
PageBases == {a \in Addresses : PageOffset(a) = 0}
\* the instruction words handed to decode: every known opcode and three unknown
\* ones, every funct3, funct7 with and without the bits the table looks at,
\* register fields at 0, 1 and 31
OpcodeFields == {51, 19, 3, 35, 99, 111, 103, 55, 23, 115, 0, 59, 127}
Funct3Fields == 0 .. 7
Funct7Fields == {0, 1, 32, 63, 64, 127}
RegFields == {0, 1, 31}
MakeWord(opcode, rd, funct3, rs1, rs2, funct7) ==
    [i \in BitPos |->
        CASE i <= 6 -> (opcode \div (2 ^ i)) % 2
          [] i >= 7 /\ i <= 11 -> (rd \div (2 ^ (i - 7))) % 2
          [] i >= 12 /\ i <= 14 -> (funct3 \div (2 ^ (i - 12))) % 2
          [] i >= 15 /\ i <= 19 -> (rs1 \div (2 ^ (i - 15))) % 2
          [] i >= 20 /\ i <= 24 -> (rs2 \div (2 ^ (i - 20))) % 2
          [] OTHER -> (funct7 \div (2 ^ (i - 25))) % 2]
Words ==
    { MakeWord(o, rd, f3, rs1, rs2, f7) :
        o \in OpcodeFields, rd \in RegFields, f3 \in Funct3Fields,
        rs1 \in RegFields, rs2 \in RegFields, f7 \in Funct7Fields }
\* the Instruction values encode is called on besides those decode returns:
\* Add with register fields over the range of u8
Regs8 == {0, 1, 31, 32, 255}
AddInsns == {RType("Add", rd, rs1, rs2) : rd \in Regs8, rs1 \in Regs8, rs2 \in Regs8}
\* values of the other variants encode is called on: fields inside their
\* encoding's range, at its boundaries, and outside it
OtherInsns ==
    { SType("Beq", 5, 6, 0 - 8), SType("Bltu", 1, 2, 4094), SType("Bltu", 1, 2, 0 - 4096),
      SType("Bltu", 1, 2, 3), SType("Bltu", 1, 2, 4096), SType("Bltu", 1, 2, 0 - 4098),
      SType("Bltu", 32, 2, 8),
      RType("Sll", 1, 2, 3), RType("Sll", 32, 1, 2), RType("Sll", 1, 255, 2),
      RType("Rem", 1, 2, 32),
      UType("Jal", 1, 8), UType("Jal", 1, 1048574), UType("Jal", 1, 0 - 1048576),
      UType("Jal", 32, 8), UType("Jal", 255, 8), UType("Jal", 1, 7), UType("Jal", 1, 0 - 7),
      UType("Jal", 1, 1048576), UType("Jal", 1, 0 - 1048578),
      IType("Addi", 1, 2, 2047), IType("Addi", 1, 2, 0 - 2048),
      IType("Addi", 1, 2, 2048), IType("Addi", 1, 2, 0 - 2049), IType("Lbu", 1, 32, 0),
      SType("Sb", 1, 2, 2047), SType("Sb", 1, 2, 2048), SType("Sb", 1, 2, 0 - 2049),
      ShiftType("Srli", 1, 2, 31), ShiftType("Srli", 1, 2, 32),
      UType("Auipc", 1, 1048575), UType("Auipc", 1, 1048576), UType("Auipc", 32, 1) }

\* the lengths of the code handed to set_code
CodeLens == 0 .. (MaxCodeArg + 1)
OneByteBuffers == {b \in Buffers : Len(b) = 1 /\ b[1] # 0}

(* ---------------- the state machine ---------------- *)
Init ==
    /\ store = PageStoreNew(TotalPages)
    /\ mem = [id \in MemIds |-> NoMemory]
    /\ modules = [m \in ModIds |-> NoModule]
    /\ instances = [i \in InstIds |-> NoInstance]
    /\ halted = "no"
    /\ word = NoWord
    /\ insn = NoInsn
    /\ encoded = NoResult

\* Memory::new(&mut store, max_pages, max_l2_tables); a failing assert ends the
\* program, so the asserts are guards
NewMemory(id, max_pages, max_l2_tables) ==
    /\ ~mem[id].live
    /\ max_pages <= MAX_PAGES
    /\ max_pages <= store.num_available_pages
    /\ max_l2_tables <= MAX_L2_TABLES
    /\ store' = [store EXCEPT !.instance_count = @ + 1]
    /\ mem' = [mem EXCEPT ![id] = MemoryNew(max_pages, max_l2_tables)]
    /\ UNCHANGED <<lifeVars, instrVars>>

\* mem.allocate_page(address)
DoAllocatePage(id, address) ==
    /\ mem[id].live
    /\ LET r == AllocatePage(mem[id], store, address)
       IN  /\ mem' = [mem EXCEPT ![id] = r.mem]
           /\ store' = r.store
    /\ UNCHANGED <<lifeVars, instrVars>>

\* mem.write(address, buffer)
DoWrite(id, address, buffer) ==
    /\ mem[id].live
    /\ LET r == Write(mem[id], store, address, buffer)
       IN  /\ mem' = [mem EXCEPT ![id] = r.mem]
           /\ store' = r.store
    /\ UNCHANGED <<lifeVars, instrVars>>

\* mem.read(address, buffer) on a buffer of n bytes that all hold k: read takes
\* &self and changes only the caller's buffer
DoRead(id, address, n, k) ==
    /\ mem[id].live
    /\ LET r == ReadCall(mem[id], store, address, Garbage(n, k))
       IN  /\ Len(r.buffer) = n
           /\ mem' = [mem EXCEPT ![id] = r.mem]
           /\ store' = r.store
    /\ UNCHANGED <<lifeVars, instrVars>>

\* mem.reset()
DoReset(id) ==
    /\ mem[id].live
    /\ LET r == Reset(mem[id], store)
       IN  /\ mem' = [mem EXCEPT ![id] = r.mem]
           /\ store' = r.store
    /\ UNCHANGED <<lifeVars, instrVars>>

\* drop(mem): reset, instance_count -= 1, the tables are freed
DropMemory(id) ==
    /\ mem[id].live
    /\ store' = DropStore(mem[id], store)
    /\ mem' = [mem EXCEPT ![id] = NoMemory]
    /\ UNCHANGED <<lifeVars, instrVars>>

New(ids, cfgs) == \E id \in ids, c \in cfgs : NewMemory(id, c[1], c[2])
Allocate(ids) == \E id \in ids, a \in Addresses : DoAllocatePage(id, a)
WriteBuf(ids, addrs, bufs) == \E id \in ids, a \in addrs, b \in bufs : DoWrite(id, a, b)
ReadBuf(ids, maxlen) ==
    \E id \in ids, a \in Addresses, n \in 0 .. maxlen, k \in Bytes \ {0} : DoRead(id, a, n, k)
ResetMem(ids) == \E id \in ids : DoReset(id)
Drop(ids) == \E id \in ids : DropMemory(id)

\* one Memory on the store, every configuration, every address and every buffer
Next ==
    \/ New({1}, AllConfigs)
    \/ Allocate({1})
    \/ WriteBuf({1}, Addresses, Buffers)
    \/ ReadBuf({1}, MaxLen)
    \/ ResetMem({1})
    \/ Drop({1})

Spec == Init /\ [][Next]_vars

\* NumMems Memories sharing the store
NextShared ==
    \/ New(MemIds, SharedConfigs)
    \/ Allocate(MemIds)
    \/ WriteBuf(MemIds, PageBases, OneByteBuffers)
    \/ ReadBuf(MemIds, 1)
    \/ ResetMem(MemIds)
    \/ Drop(MemIds)

SpecShared == Init /\ [][NextShared]_vars

(* ---------------- the Module / Instance state machine ---------------- *)
\* Module::new(max_code_size), max_code_size > 0 (mmap refuses an empty region)
NewModule(m, max_code_size) ==
    /\ halted = "no"
    /\ ~modules[m].live
    /\ modules' = [modules EXCEPT ![m] = ModuleNew(max_code_size)]
    /\ UNCHANGED <<instances, halted, memVars, instrVars>>

\* Instance::new(memory)
NewInstance(i) ==
    /\ halted = "no"
    /\ ~instances[i].live
    /\ instances' = [instances EXCEPT ![i] = InstanceNew]
    /\ UNCHANGED <<modules, halted, memVars, instrVars>>

\* instance.attach(&mut module)
DoAttach(i, m) ==
    /\ halted = "no"
    /\ instances[i].live /\ modules[m].live
    /\ LET r == Attach(i, m, modules, instances)
       IN  modules' = r.modules /\ instances' = r.instances
    /\ UNCHANGED <<halted, memVars, instrVars>>

\* instance.detach()
DoDetach(i) ==
    /\ halted = "no"
    /\ instances[i].live
    /\ LET r == Detach(i, modules, instances)
       IN  modules' = r.modules /\ instances' = r.instances
    /\ UNCHANGED <<halted, memVars, instrVars>>

\* drop(instance): detach, then the Memory is released
DropInstance(i) ==
    /\ halted = "no"
    /\ instances[i].live
    /\ LET r == DropInst(i, modules, instances)
       IN  modules' = r.modules /\ instances' = r.instances
    /\ UNCHANGED <<halted, memVars, instrVars>>

\* module.set_code(code) for code of code_len bytes
DoSetCode(m, code_len, rx_store) ==
    /\ halted = "no"
    /\ modules[m].live
    /\ LET r == SetCode(modules[m], code_len, rx_store)
       IN  /\ modules' = [modules EXCEPT ![m] = r.module]
           /\ halted' = IF r.fault THEN "fault" ELSE halted
    /\ UNCHANGED <<instances, memVars, instrVars>>

\* instance.call_function(0): the compiled code is a single return
DoCallFunction(i) ==
    /\ halted = "no"
    /\ instances[i].live
    /\ CallFunction(instances[i], modules).result \in
           {"Instance not attached to module", "Module has no compiled code", "Ok"}
    /\ UNCHANGED vars

\* drop(module): a panic while Instances are attached, else the region is unmapped
DropModule(m) ==
    /\ halted = "no"
    /\ modules[m].live
    /\ LET r == ModuleDrop(modules[m])
       IN  IF r.panic
           THEN halted' = "panic" /\ UNCHANGED modules
           ELSE modules' = [modules EXCEPT ![m] = r.module] /\ UNCHANGED halted
    /\ UNCHANGED <<instances, memVars, instrVars>>

NextLife ==
    \/ \E m \in ModIds, c \in 1 .. MaxCodeArg : NewModule(m, c)
    \/ \E i \in InstIds : NewInstance(i)
    \/ \E i \in InstIds, m \in ModIds : DoAttach(i, m)
    \/ \E i \in InstIds : DoDetach(i)
    \/ \E i \in InstIds : DropInstance(i)
    \/ \E m \in ModIds, n \in CodeLens, o \in RxStoreOutcomes : DoSetCode(m, n, o)
    \/ \E i \in InstIds : DoCallFunction(i)
    \/ \E m \in ModIds : DropModule(m)

SpecLife == Init /\ [][NextLife]_vars

(* ---------------- the PageStore's lifetime ---------------- *)
\* the program runs and has a PageStore
StoreUp == halted = "no" /\ store # NoStore

\* PageStore::new(TotalPages) after the previous store is gone
NewPageStore ==
    /\ halted = "no"
    /\ store = NoStore
    /\ store' = PageStoreNew(TotalPages)
    /\ UNCHANGED <<mem, lifeVars, instrVars>>

\* drop(store)
DropPageStore ==
    /\ StoreUp
    /\ LET r == PageStoreDrop(store)
       IN  /\ store' = r.store
           /\ halted' = IF r.panic THEN "panic" ELSE halted
    /\ UNCHANGED <<mem, modules, instances, instrVars>>

\* Memories come and go on the store, and the store itself is dropped at any
\* moment (Memory keeps a raw pointer to it, so nothing ties the lifetimes)
NextStore ==
    \/ StoreUp /\ New(MemIds, SharedConfigs)
    \/ StoreUp /\ Allocate(MemIds)
    \/ StoreUp /\ ResetMem(MemIds)
    \/ StoreUp /\ Drop(MemIds)
    \/ DropPageStore
    \/ NewPageStore

SpecStore == Init /\ [][NextStore]_vars

(* ---------------- decode and encode ---------------- *)
\* the inputs: a word for decode, or an Instruction for encode
InitInstr ==
    /\ store = PageStoreNew(TotalPages)
    /\ mem = [id \in MemIds |-> NoMemory]
    /\ modules = [m \in ModIds |-> NoModule]
    /\ instances = [i \in InstIds |-> NoInstance]
    /\ halted = "no"
    /\ encoded = NoResult
    /\ \/ word \in Words /\ insn = NoInsn
       \/ word = NoWord /\ insn \in AddInsns \cup OtherInsns

\* Instruction::decode(word)
DoDecode ==
    /\ word # NoWord
    /\ insn = NoInsn
    /\ insn' = Decode(word)
    /\ UNCHANGED <<word, encoded, memVars, lifeVars>>

\* insn.encode()
DoEncode ==
    /\ insn # NoInsn
    /\ encoded = NoResult
    /\ encoded' = Encode(insn)
    /\ UNCHANGED <<word, insn, memVars, lifeVars>>

NextInstr == DoDecode \/ DoEncode

SpecInstr == InitInstr /\ [][NextInstr]_vars

(* ---------------- what the claims speak about ---------------- *)
LiveIds == {id \in MemIds : mem[id].live}
\* the store's free prefix available_pages[0 .. num_available_pages)
FreePages(s) == {s.available_pages[i] : i \in 0 .. (s.num_available_pages - 1)}
\* allocated_indices[0 .. num_pages)
OwnedPages(m) == {m.allocated_indices[j] : j \in 0 .. (m.num_pages - 1)}
MappedEntries(m) == {i \in DOMAIN m.l2_tables : m.l2_tables[i] # UNMAPPED_PAGE}
Zeros(n) == [i \in 1 .. n |-> 0]
\* the guest pages the n bytes from address a lie in
TouchedPages(a, n) == {PageBase(WrappingAdd(a, i)) : i \in 0 .. (n - 1)}
UnmappedTouched(m, a, n) == {p \in TouchedPages(a, n) : Lookup(m, p) = UNMAPPED_PAGE}
UnmappedL1Touched(m, a, n) ==
    {l \in {L1Idx(p) : p \in TouchedPages(a, n)} : m.l1_table[l] = UNMAPPED_L2_TABLE}
\* the Memory and the store can take every page and L2 table the write needs
SufficientCapacity(m, s, a, n) ==
    /\ Cardinality(UnmappedTouched(m, a, n)) <= m.max_pages - m.num_pages
    /\ Cardinality(UnmappedTouched(m, a, n)) <= s.num_available_pages
    /\ Cardinality(UnmappedL1Touched(m, a, n)) <= m.max_l2_tables - m.num_l2_tables
\* every byte of the Memory reads as zero
ReadsZero(m, s) ==
    \A a \in Addresses, n \in 0 .. MaxLen, k \in Bytes :
        Read(m, s, a, Garbage(n, k)) = Zeros(n)
\* the byte a Memory holds at an address
ByteAt(m, s, a) == Read(m, s, a, Garbage(1, 1))[1]

\* the Instances whose module pointer is Module m
AttachedTo(m) == {i \in InstIds : instances[i].live /\ instances[i].module = m}

(* C1: after any sequence of attach, detach and drop by any Instances on any     *)
(* Modules, each Module's instance_count is the number of Instances whose module *)
(* pointer is that Module.                                                       *)
C1_CountIsAttached ==
    \A m \in ModIds : modules[m].instance_count = Cardinality(AttachedTo(m))

\* two Instances are attached to Module 1 while Module 2, with code set, has none
C1_Witness ==
    /\ modules[1].instance_count = 2
    /\ modules[2].live /\ modules[2].instance_count = 0 /\ modules[2].prot = "rx"

(* C2: a Module's memory_ptr slot is null exactly when no Instance is attached   *)
(* to the Module, and otherwise holds the address of the Memory of an Instance   *)
(* that is attached to it.                                                       *)
C2_SlotTracksAttached ==
    \A m \in ModIds :
        modules[m].live =>
            /\ modules[m].memory_ptr = NULL <=> AttachedTo(m) = {}
            /\ modules[m].memory_ptr # NULL => modules[m].memory_ptr \in AttachedTo(m)

(* C3: write-then-read identity. For every live Memory, address A and buffer B   *)
(* for which the Memory and the store have the pages and L2 tables the write     *)
(* needs, write(A, B) returns SUCCESS and read(A, out) of the same length then   *)
(* gives out = B, also across page and L2-table boundaries and across the wrap.  *)
C3_WriteThenRead ==
    \A id \in LiveIds, a \in Addresses, b \in Buffers :
        SufficientCapacity(mem[id], store, a, Len(b)) =>
            LET r == Write(mem[id], store, a, b)
            IN  /\ r.status = MEM_SUCCESS
                /\ \A k \in Bytes : Read(r.mem, r.store, a, Garbage(Len(b), k)) = b

\* a write of 1, 0, 1 at the last address has wrapped to address 0 and is read back
C3_Witness ==
    /\ mem[1].live
    /\ Lookup(mem[1], ADDRESS_SPACE - 1) # UNMAPPED_PAGE
    /\ Lookup(mem[1], 0) # UNMAPPED_PAGE
    /\ Read(mem[1], store, ADDRESS_SPACE - 1, Garbage(3, 0)) = <<1, 0, 1>>

(* C4: reset restores the pool. reset() of a live Memory holding N pages puts    *)
(* exactly those N pages back in the free prefix (num_available_pages grows by   *)
(* N), the other Memories keep their pages and what they read, and afterwards    *)
(* every read of the Memory gives zeros, as it does in every state in which the  *)
(* Memory holds no page.                                                         *)
C4_ResetRestoresPool ==
    \A id \in LiveIds :
        LET m == mem[id]
            r == Reset(m, store)
        IN  /\ r.store.num_available_pages = store.num_available_pages + m.num_pages
            /\ FreePages(r.store) = FreePages(store) \cup OwnedPages(m)
            /\ \A o \in LiveIds \ {id} :
                   /\ OwnedPages(mem[o]) \cap FreePages(r.store) = {}
                   /\ \A a \in Addresses : ByteAt(mem[o], r.store, a) = ByteAt(mem[o], store, a)
            /\ ReadsZero(r.mem, r.store)
            /\ (m.num_pages = 0 => ReadsZero(m, store))

\* Memory 1 took a page and gave it back in a reset (the page index is still in
\* allocated_indices[0]) while Memory 2 holds a page with a written byte
C4_Witness ==
    /\ mem[1].live /\ mem[2].live
    /\ mem[1].num_pages = 0 /\ mem[1].max_pages > 0 /\ mem[1].allocated_indices[0] # 0
    /\ mem[2].num_pages = 1
    /\ \E a \in Addresses : ByteAt(mem[2], store, a) # 0
    /\ store.num_available_pages = TotalPages - 1

(* C5: after reset() of a live Memory in any reachable state, num_pages = 0,     *)
(* num_l2_tables = 0, every l1_table entry is 0xFF and every L2 entry is 0xFFFF. *)
C5_ResetClearsTables ==
    \A id \in LiveIds :
        LET r == Reset(mem[id], store).mem
        IN  /\ r.num_pages = 0
            /\ r.num_l2_tables = 0
            /\ \A i \in DOMAIN r.l1_table : r.l1_table[i] = UNMAPPED_L2_TABLE
            /\ \A i \in DOMAIN r.l2_tables : r.l2_tables[i] = UNMAPPED_PAGE

\* the statuses a sequence of allocate_page calls returns
RECURSIVE AllocStatuses(_, _, _)
AllocStatuses(m, s, addrs) ==
    IF addrs = <<>> THEN <<>>
    ELSE LET r == AllocatePage(m, s, Head(addrs))
         IN  <<r.status>> \o AllocStatuses(r.mem, r.store, Tail(addrs))
AddressSeqs == {<<a>> : a \in Addresses} \cup {<<a, b>> : a \in Addresses, b \in Addresses}

(* C6: after reset() a Memory has its full capacity again: every sequence of     *)
(* allocate_page calls returns the statuses a Memory freshly constructed with    *)
(* the same max_pages and max_l2_tables returns on the same store.               *)
C6_ResetLikeFresh ==
    \A id \in LiveIds :
        LET r == Reset(mem[id], store)
            new == MemoryNew(mem[id].max_pages, mem[id].max_l2_tables)
        IN  \A addrs \in AddressSeqs :
                AllocStatuses(r.mem, r.store, addrs) = AllocStatuses(new, r.store, addrs)

(* C7: in every state of a live Memory the L2 entries other than 0xFFFF and the  *)
(* entries of allocated_indices[0 .. num_pages) correspond one to one: each      *)
(* mapped L2 entry occurs exactly once in the prefix, each prefix entry is the   *)
(* value of exactly one L2 entry, and num_pages is the number of mapped entries. *)
C7_MappedIsAllocated ==
    \A id \in LiveIds :
        LET m == mem[id]
            prefix == 0 .. (m.num_pages - 1)
        IN  /\ \A i \in MappedEntries(m) :
                   Cardinality({j \in prefix : m.allocated_indices[j] = m.l2_tables[i]}) = 1
            /\ \A j \in prefix :
                   Cardinality({i \in MappedEntries(m) :
                                   m.l2_tables[i] = m.allocated_indices[j]}) = 1
            /\ Cardinality(MappedEntries(m)) = m.num_pages

\* a Memory holds two pages, mapped in two different L2 tables
C7_Witness ==
    /\ mem[1].live /\ mem[1].num_pages = 2 /\ mem[1].num_l2_tables = 2
    /\ Lookup(mem[1], 0) # UNMAPPED_PAGE
    /\ Lookup(mem[1], ADDRESS_SPACE - 1) # UNMAPPED_PAGE

(* C8: no page index in a live Memory's allocated_indices[0 .. num_pages) is in  *)
(* the store's free prefix available_pages[0 .. num_available_pages).            *)
C8_OwnedNotFree ==
    \A id \in LiveIds : OwnedPages(mem[id]) \cap FreePages(store) = {}

\* both Memories hold a page and a page that was returned is free again
C8_Witness ==
    /\ mem[1].live /\ mem[2].live
    /\ mem[1].num_pages = 1 /\ mem[2].num_pages = 1
    /\ TotalPages > 2 \/ store.available_pages # [i \in 0 .. (TotalPages - 1) |-> i]
    /\ store.num_available_pages = TotalPages - 2

(* C9 as stated: for any Memory and any address A, allocate_page(A) called      *)
(* twice returns SUCCESS both times and num_pages grows by at most 1 in total.   *)
C9_TwiceAlwaysSucceeds ==
    \A id \in LiveIds, a \in Addresses :
        LET r1 == AllocatePage(mem[id], store, a)
            r2 == AllocatePage(r1.mem, r1.store, a)
        IN  /\ r1.status = MEM_SUCCESS
            /\ r2.status = MEM_SUCCESS
            /\ r2.mem.num_pages <= mem[id].num_pages + 1

(* C9 amended: allocate_page(A) called twice returns the same status both       *)
(* times and num_pages grows by at most 1 in total; when the first call returns  *)
(* SUCCESS, the second call, and a call on any address of the same page, returns *)
(* SUCCESS and changes neither the Memory nor the store.                         *)
C9_AllocateIdempotent ==
    \A id \in LiveIds, a \in Addresses :
        LET r1 == AllocatePage(mem[id], store, a)
        IN  /\ r1.mem.num_pages <= mem[id].num_pages + 1
            /\ \A a2 \in {x \in Addresses : PageBase(x) = PageBase(a)} :
                   LET r2 == AllocatePage(r1.mem, r1.store, a2)
                   IN  /\ r2.status = r1.status
                       /\ r2.mem.num_pages <= mem[id].num_pages + 1
                       /\ r1.status = MEM_SUCCESS =>
                              r2.mem = r1.mem /\ r2.store = r1.store

\* a page was allocated and the Memory can take one more
C9_Witness ==
    /\ mem[1].live /\ mem[1].num_pages = 1 /\ mem[1].max_pages = 2
    /\ store.num_available_pages = TotalPages - 1

(* C10: read before write gives zeros. A Memory as Memory::new built it reads    *)
(* zero at every address, for every length (also across the wrap) and whatever   *)
(* the buffer held before, whatever the pages of the store hold.                 *)
C10_FreshReadsZero ==
    \A id \in LiveIds :
        mem[id] = MemoryNew(mem[id].max_pages, mem[id].max_l2_tables) =>
            ReadsZero(mem[id], store)

\* Memory 2 is as constructed while a page of the store holds a written byte
C10_Witness ==
    /\ mem[1].live /\ mem[2].live
    /\ mem[2] = MemoryNew(TotalPages, MaxL2Arg)
    /\ \E b \in DOMAIN store.page_memory : store.page_memory[b] # 0

(* C11: allocate_page(A) decides its result in this order: NO_L2_TABLES if A's   *)
(* L1 slot is unmapped and num_l2_tables = max_l2_tables; otherwise SUCCESS       *)
(* without allocating if A's page is mapped, also at the page limit and on an     *)
(* empty store; otherwise PAGE_LIMIT if num_pages = max_pages; otherwise          *)
(* NO_PAGES_AVAILABLE if the store has no free page; otherwise SUCCESS with       *)
(* exactly one page taken from the store and num_pages one larger.                *)
C11_StatusOrder ==
    \A id \in LiveIds, a \in Addresses :
        LET m == mem[id]
            r == AllocatePage(m, store, a)
            pagesKept == /\ r.mem.num_pages = m.num_pages
                         /\ OwnedPages(r.mem) = OwnedPages(m)
                         /\ r.store = store
        IN  IF m.l1_table[L1Idx(a)] = UNMAPPED_L2_TABLE /\ m.num_l2_tables = m.max_l2_tables
            THEN r.status = MEM_ERR_NO_L2_TABLES /\ r.mem = m /\ r.store = store
            ELSE IF Lookup(m, a) # UNMAPPED_PAGE
            THEN r.status = MEM_SUCCESS /\ r.mem = m /\ r.store = store
            ELSE IF m.num_pages = m.max_pages
            THEN r.status = MEM_ERR_PAGE_LIMIT /\ pagesKept
            ELSE IF store.num_available_pages = 0
            THEN r.status = MEM_ERR_NO_PAGES_AVAILABLE /\ pagesKept
            ELSE /\ r.status = MEM_SUCCESS
                 /\ r.mem.num_pages = m.num_pages + 1
                 /\ r.store.num_available_pages = store.num_available_pages - 1
                 /\ Cardinality(FreePages(store) \ FreePages(r.store)) = 1
                 /\ OwnedPages(r.mem) = OwnedPages(m) \cup (FreePages(store) \ FreePages(r.store))
                 /\ Lookup(r.mem, a) \in FreePages(store)

\* Memory 1 is at its page limit and at its L2 limit with its page mapped, and
\* Memory 2 is below its page limit on a store that the two have drained
C11_Witness ==
    /\ mem[1].live /\ mem[2].live
    /\ mem[1].max_pages = 1 /\ mem[1].num_pages = 1
    /\ mem[1].max_l2_tables = 1 /\ mem[1].num_l2_tables = 1
    /\ mem[2].max_pages = 2 /\ mem[2].num_pages = 1
    /\ store.num_available_pages = 0
    /\ \E a \in Addresses : AllocatePage(mem[1], store, a).status = MEM_ERR_NO_L2_TABLES
    /\ \E a \in Addresses : AllocatePage(mem[1], store, a).status = MEM_ERR_PAGE_LIMIT
    /\ \E a \in Addresses : AllocatePage(mem[1], store, a).status = MEM_SUCCESS
    /\ \E a \in Addresses : AllocatePage(mem[2], store, a).status = MEM_ERR_NO_PAGES_AVAILABLE

\* every page index of the store
AllPages == 0 .. (TotalPages - 1)

(* C12: Memory::new reserves no pages. Every page no Memory holds is free,        *)
(* whatever the max_pages of the live Memories; on a store the Memories have      *)
(* drained, allocate_page and write on an unmapped page of a Memory that is below *)
(* its max_pages (and has an L2 table for the page) return NO_PAGES_AVAILABLE,    *)
(* and the same call returns SUCCESS on the store as it is after the reset() or   *)
(* the drop of another Memory that holds a page.                                  *)
C12_NoReservation ==
    /\ FreePages(store) = AllPages \ UNION {OwnedPages(mem[id]) : id \in LiveIds}
    /\ \A id \in LiveIds, a \in Addresses :
        LET m == mem[id]
        IN  ( /\ store.num_available_pages = 0
              /\ m.num_pages < m.max_pages
              /\ Lookup(m, a) = UNMAPPED_PAGE
              /\ m.l1_table[L1Idx(a)] # UNMAPPED_L2_TABLE \/ m.num_l2_tables < m.max_l2_tables )
            => /\ AllocatePage(m, store, a).status = MEM_ERR_NO_PAGES_AVAILABLE
               /\ Write(m, store, a, <<1>>).status = MEM_ERR_NO_PAGES_AVAILABLE
               /\ \A o \in LiveIds \ {id} :
                      mem[o].num_pages > 0 =>
                          \A after \in {Reset(mem[o], store).store, DropStore(mem[o], store)} :
                              /\ AllocatePage(m, after, a).status = MEM_SUCCESS
                              /\ Write(m, after, a, <<1>>).status = MEM_SUCCESS

\* two Memories whose max_pages together exceed the pool; Memory 2 has drained
\* the pool and Memory 1 holds no page
C12_Witness ==
    /\ mem[1].live /\ mem[2].live
    /\ mem[1].max_pages + mem[2].max_pages > TotalPages
    /\ mem[1].num_pages = 0 /\ mem[1].max_pages > 0
    /\ mem[2].num_pages = TotalPages
    /\ store.num_available_pages = 0

\* the guest addresses of the first n bytes of a buffer written at a
Range(a, n) == {WrappingAdd(a, i) : i \in 0 .. (n - 1)}

(* C13: when write(A, B) fails, it fails in allocate_page for the page of some    *)
(* byte n of B that starts a chunk: write returns that allocate_page status, the  *)
(* n bytes before it are stored and read back, the pages allocated for them stay  *)
(* allocated, and no byte outside those n changes. An empty B returns SUCCESS and *)
(* changes nothing.                                                               *)
C13_PartialWrite ==
    \A id \in LiveIds, a \in Addresses, b \in Buffers :
        LET m == mem[id]
            r == Write(m, store, a, b)
        IN  /\ Len(b) = 0 => r.status = MEM_SUCCESS /\ r.mem = m /\ r.store = store
            /\ r.status # MEM_SUCCESS =>
                 \E n \in 0 .. (Len(b) - 1) :
                    LET p == Write(m, store, a, SubSeq(b, 1, n))
                        f == AllocatePage(p.mem, p.store, WrappingAdd(a, n))
                    IN  /\ n = 0 \/ PageOffset(WrappingAdd(a, n)) = 0
                        /\ p.status = MEM_SUCCESS
                        /\ f.status = r.status
                        /\ \A k \in Bytes : Read(r.mem, r.store, a, Garbage(n, k)) = SubSeq(b, 1, n)
                        /\ OwnedPages(r.mem) = OwnedPages(p.mem)
                        /\ OwnedPages(m) \subseteq OwnedPages(r.mem)
                        /\ \A x \in Range(a, n) : Lookup(r.mem, x) # UNMAPPED_PAGE
                        /\ Lookup(r.mem, WrappingAdd(a, n)) = UNMAPPED_PAGE
                        /\ r.store = p.store
                        /\ \A x \in Addresses \ Range(a, n) :
                               ByteAt(r.mem, r.store, x) = ByteAt(m, store, x)

\* a Memory that holds a page with a written byte, and a write from here takes
\* one more page before it fails on the next
C13_Witness ==
    /\ mem[1].live /\ mem[1].num_pages = 1
    /\ \E x \in Addresses : ByteAt(mem[1], store, x) # 0
    /\ \E a \in Addresses, b \in Buffers :
           LET r == Write(mem[1], store, a, b)
           IN  r.status = MEM_ERR_PAGE_LIMIT /\ r.mem.num_pages = 2

LiveMods == {m \in ModIds : modules[m].live}

(* C14: set_code returns Err(InstancesAttached) exactly when the Module's         *)
(* instance_count is not 0 at the call, whatever the size of the input;           *)
(* otherwise it returns Err(CodeTooLarge) exactly when 4 times the input length   *)
(* exceeds the code buffer size, so an input of exactly max_code_size bytes is    *)
(* not refused; on either error code() and code_size are as before the call.      *)
C14_SetCodeErrors ==
    \A m \in LiveMods, n \in CodeLens, o \in RxStoreOutcomes :
        LET mod == modules[m]
            r == SetCode(mod, n, o)
        IN  /\ r.result = "InstancesAttached" <=> mod.instance_count # 0
            /\ mod.instance_count = 0 =>
                   (r.result = "CodeTooLarge" <=>
                        ARM64_CODE_SIZE_MULTIPLIER * n > mod.code_buffer_size)
            /\ ( mod.instance_count = 0
                 /\ n * ARM64_CODE_SIZE_MULTIPLIER = mod.code_buffer_size
                 /\ mod.prot = "rw" ) => r.result = "Ok"
            /\ r.result \in {"InstancesAttached", "CodeTooLarge"} =>
                   /\ Code(r.module) = Code(mod)
                   /\ r.module.code_size = mod.code_size
                   /\ ~r.fault

\* Module 1 has code and an attached Instance; Module 2 has none and was built
\* with max_code_size 1, so that longer code is too large for it
C14_Witness ==
    /\ modules[1].live /\ modules[1].instance_count = 1 /\ modules[1].code_size > 0
    /\ modules[2].live /\ modules[2].instance_count = 0 /\ modules[2].prot = "rw"
    /\ modules[2].code_buffer_size = ARM64_CODE_SIZE_MULTIPLIER
    /\ SetCode(modules[1], MaxCodeArg + 1, "fault").result = "InstancesAttached"
    /\ SetCode(modules[2], 2, "fault").result = "CodeTooLarge"
    /\ SetCode(modules[2], 1, "fault").result = "Ok"

\* the input lengths that pass the size check of set_code
FittingLens(mod) == {n \in CodeLens : n * ARM64_CODE_SIZE_MULTIPLIER <= mod.code_buffer_size}

(* C15: the bytes code() returns do not change in a step before and after which   *)
(* an Instance is attached to the Module; while an Instance is attached every     *)
(* set_code is rejected with InstancesAttached; and after the step that brings    *)
(* instance_count back to 0, every set_code whose input fits returns Ok.          *)
C15_CodeFixedWhileAttached ==
    [][ \A m \in ModIds :
          /\ (AttachedTo(m) # {} /\ AttachedTo(m)' # {}) =>
                 Code(modules'[m]) = Code(modules[m])
          /\ AttachedTo(m)' # {} =>
                 \A n \in CodeLens, o \in RxStoreOutcomes :
                     /\ SetCode(modules'[m], n, o).result = "InstancesAttached"
                     /\ SetCode(modules'[m], n, o).module = modules'[m]
          /\ (modules[m].instance_count > 0 /\ modules'[m].live
                  /\ modules'[m].instance_count = 0) =>
                 \A n \in FittingLens(modules'[m]), o \in RxStoreOutcomes :
                     SetCode(modules'[m], n, o).result = "Ok"
      ]_vars

(* C16: with no Instance attached, set_code on a Module, whether or not it has   *)
(* code already, returns Ok for every input that fits the buffer, makes code()    *)
(* the newly compiled code and leaves the region read/execute.                    *)
C16_SetCodeRepeatable ==
    \A m \in LiveMods, o \in RxStoreOutcomes :
        modules[m].instance_count = 0 =>
            \A n \in FittingLens(modules[m]) :
                LET r == SetCode(modules[m], n, o)
                IN  /\ r.result = "Ok"
                    /\ ~r.fault
                    /\ Code(r.module) = Compile(n)
                    /\ r.module.prot = "rx"

LiveInsts == {i \in InstIds : instances[i].live}

C18_OneModuleAtATime ==
    \A i \in LiveInsts :
        LET m1 == instances[i].module
            d == Detach(i, modules, instances)
            x == DropInst(i, modules, instances)
        IN  /\ Cardinality({m \in ModIds : i \in AttachedTo(m)}) <= 1
            /\ m1 = NULL => d.modules = modules /\ d.instances = instances
            /\ x.instances[i] = NoInstance
            /\ x.modules = d.modules
            /\ m1 # NULL =>
                   /\ x.modules[m1].instance_count = modules[m1].instance_count - 1
                   /\ x.modules[m1].memory_ptr = NULL
                   /\ d.instances[i].module = NULL
            /\ \A m2 \in LiveMods :
                   LET r == Attach(i, m2, modules, instances)
                   IN  /\ r.instances[i].module = m2
                       /\ \A j \in InstIds \ {i} : r.instances[j] = instances[j]
                       /\ \A m \in ModIds \ {m1, m2} : r.modules[m] = modules[m]
                       /\ r.modules[m2].memory_ptr = i
                       /\ r.modules[m2].instance_count =
                              modules[m2].instance_count + (IF m1 = m2 THEN 0 ELSE 1)
                       /\ (m1 # NULL /\ m1 # m2) =>
                              /\ r.modules[m1].instance_count = modules[m1].instance_count - 1
                              /\ r.modules[m1].memory_ptr = NULL

\* Instance 1 is on Module 2 while Module 1 is live with a null slot, and
\* Instance 2 is live and detached
C18_Witness ==
    /\ instances[1].live /\ instances[1].module = 2
    /\ modules[1].live /\ modules[1].instance_count = 0 /\ modules[1].memory_ptr = NULL
    /\ modules[1].code_size > 0
    /\ instances[2].live /\ instances[2].module = NULL

(* C19: round-trip law. For every Instruction value V the type can hold          *)
(* (register fields are u8) for which encode returns Ok(w), decode(w) = V.        *)
C19_RoundTrip ==
    (insn # NoInsn /\ encoded.ok) => Decode(encoded.word) = insn

\* bits lo .. hi of a word, read as a number
RECURSIVE Field(_, _, _)
Field(w, lo, hi) == IF lo > hi THEN 0 ELSE w[lo] + 2 * Field(w, lo + 1, hi)

\* the words that are an encoding of the opcode table
ValidEncoding(w) ==
    LET opcode == Field(w, 0, 6)
        funct3 == Field(w, 12, 14)
        funct7 == Field(w, 25, 31)
    IN  CASE opcode = 51 -> funct7 \in {0, 1} \/ (funct7 = 32 /\ funct3 \in {0, 5})
          [] opcode = 19 -> /\ funct3 = 1 => funct7 = 0
                            /\ funct3 = 5 => funct7 \in {0, 32}
          [] opcode = 3 -> funct3 \in {0, 1, 2, 4, 5}
          [] opcode = 35 -> funct3 \in {0, 1, 2}
          [] opcode = 99 -> funct3 \in {0, 1, 4, 5, 6, 7}
          [] opcode = 103 -> funct3 = 0
          [] opcode \in {111, 55, 23} -> TRUE
          [] opcode = 115 -> Field(w, 7, 19) = 0 /\ Field(w, 21, 31) = 0
          [] OTHER -> FALSE

\* the names of the variants of Instruction
Variants ==
    { "Add", "Sub", "Sll", "Xor", "Or", "Srl", "Sra", "Slt", "Sltu", "And",
      "Mul", "Mulh", "Mulhsu", "Mulhu", "Div", "Divu", "Rem", "Remu",
      "Addi", "Slti", "Sltiu", "Xori", "Ori", "Andi", "Slli", "Srli", "Srai",
      "Lb", "Lh", "Lw", "Lbu", "Lhu", "Sb", "Sh", "Sw",
      "Beq", "Bne", "Blt", "Bge", "Bltu", "Bgeu", "Jal", "Jalr", "Lui", "Auipc",
      "Ecall", "Ebreak", "Unsupported" }

(* C20: decode is total and canonical. For every word it returns an Instruction   *)
(* and does not panic; for every word that is no encoding of the opcode table     *)
(* (unknown opcode; R-type (funct3, funct7) outside the table; reserved funct3    *)
(* of loads, stores, branches, JALR; SLLI/SRLI/SRAI with other upper 7 bits; an   *)
(* opcode-0x73 word other than 0x00000073 and 0x00100073) it returns              *)
(* Unsupported(w) with exactly the input word, and for no other word Unsupported. *)
C20_DecodeTotalCanonical ==
    (word # NoWord /\ insn # NoInsn) =>
        /\ insn # Panic
        /\ insn.op \in Variants
        /\ ~ValidEncoding(word) => insn = Unsupported(word)
        /\ ValidEncoding(word) => insn.op # "Unsupported"

\* decode was given ECALL's word with rd = 1 and bit 31 set and returned it back
C20_Witness ==
    /\ word = MakeWord(115, 1, 0, 0, 0, 64)
    /\ insn = Unsupported(word)
    /\ ~ValidEncoding(word)

\* the variants by the shape of their encoding
RegisterOps ==
    { "Add", "Sub", "Sll", "Xor", "Or", "Srl", "Sra", "Slt", "Sltu", "And",
      "Mul", "Mulh", "Mulhsu", "Mulhu", "Div", "Divu", "Rem", "Remu" }
ImmediateOps ==
    { "Addi", "Slti", "Sltiu", "Xori", "Ori", "Andi", "Lb", "Lh", "Lw", "Lbu", "Lhu", "Jalr" }
ShiftOps == { "Slli", "Srli", "Srai" }
StoreOps == { "Sb", "Sh", "Sw" }
BranchOps == { "Beq", "Bne", "Blt", "Bge", "Bltu", "Bgeu" }
UpperOps == { "Lui", "Auipc" }

\* the register fields of an Instruction value that exceed 31
BadRegisters(v) == { f \in {"rd", "rs1", "rs2"} \cap DOMAIN v : v[f] > 31 }

\* the immediate of an Instruction value is one its encoding can hold
ImmediateFits(v) ==
    CASE v.op \in ImmediateOps \cup StoreOps -> v.imm >= 0 - 2048 /\ v.imm <= 2047
      [] v.op \in ShiftOps -> v.shamt <= 31
      [] v.op \in BranchOps -> v.imm % 2 = 0 /\ v.imm >= 0 - 4096 /\ v.imm <= 4094
      [] v.op = "Jal" -> v.imm % 2 = 0 /\ v.imm >= 0 - 1048576 /\ v.imm <= 1048574
      [] v.op \in UpperOps -> v.imm < 1048576
      [] OTHER -> TRUE

\* a supported variant with every field in range
InRange(v) ==
    /\ v.op \in Variants \ {"Unsupported"}
    /\ BadRegisters(v) = {}
    /\ ImmediateFits(v)

(* C21: for every supported variant V whose fields are in range (registers       *)
(* 0..31, shift amounts 0..31, I/S immediates in [-2048, 2047], even branch       *)
(* offsets in [-4096, 4094], even JAL offsets in [-1048576, 1048574], U           *)
(* immediates below 2^20), encode(V) returns Ok(w) with decode(w) = V; and        *)
(* Beq { rs1: 5, rs2: 6, imm: -8 } encodes to 0xFE628CE3.                         *)
C21_EncodeInRange ==
    (insn # NoInsn /\ encoded # NoResult /\ InRange(insn)) =>
        /\ encoded.ok
        /\ Decode(encoded.word) = insn
        /\ insn = SType("Beq", 5, 6, 0 - 8) => encoded.word = FromHalves(65122, 36067)

(* C22: whenever a register field (rd, rs1, rs2) of the instruction exceeds 31,   *)
(* encode returns Err(InvalidRegister(field, value)) naming an offending field,   *)
(* and never Ok.                                                                  *)
C22_InvalidRegister ==
    (insn # NoInsn /\ encoded # NoResult /\ BadRegisters(insn) # {}) =>
        /\ ~encoded.ok
        /\ encoded.err = "InvalidRegister"
        /\ encoded.name \in BadRegisters(insn)

(* C23: encode returns Err(InvalidImmediate(field, value)) whenever the           *)
(* immediate cannot be represented (a branch offset odd or outside [-4096, 4094], *)
(* a JAL offset odd or outside [-1048576, 1048574], an I/S immediate outside      *)
(* [-2048, 2047], a shift amount above 31, a U immediate of 2^20 or more), and    *)
(* accepts the values at the boundaries of the ranges.                            *)
C23_InvalidImmediate ==
    (insn # NoInsn /\ encoded # NoResult /\ BadRegisters(insn) = {}) =>
        /\ ~ImmediateFits(insn) => (~encoded.ok /\ encoded.err = "InvalidImmediate")
        /\ (ImmediateFits(insn) /\ insn.op # "Unsupported") => encoded.ok

(* C24: between public calls, every l1_table entry of a Memory that is not 0xFF  *)
(* is strictly less than num_l2_tables, so every L1 lookup selects an L2 table    *)
(* inside the preallocated pool of max_l2_tables tables.                          *)
C24_L1EntriesInPool ==
    \A id \in LiveIds :
        \A i \in DOMAIN mem[id].l1_table :
            mem[id].l1_table[i] # UNMAPPED_L2_TABLE =>
                /\ mem[id].l1_table[i] < mem[id].num_l2_tables
                /\ mem[id].l1_table[i] < mem[id].max_l2_tables
                /\ \A j \in 0 .. (L2_TABLE_SIZE - 1) :
                      (mem[id].l1_table[i] * L2_TABLE_SIZE + j) \in DOMAIN mem[id].l2_tables

\* both L1 slots of a Memory have their own L2 table, the second one assigned
\* to the second L1 slot
C24_Witness ==
    /\ mem[1].live
    /\ mem[1].num_l2_tables = 2
    /\ mem[1].l1_table[0] # UNMAPPED_L2_TABLE
    /\ mem[1].l1_table[1] = 1

(* C25: after any sequence of allocate_page, write, read and reset calls,         *)
(* num_pages <= max_pages and num_l2_tables <= max_l2_tables, so that             *)
(* allocated_indices and the L2-table pool are never indexed past their size.     *)
C25_CountsWithinLimits ==
    \A id \in LiveIds :
        /\ mem[id].num_pages <= mem[id].max_pages
        /\ mem[id].num_l2_tables <= mem[id].max_l2_tables
        /\ \A j \in 0 .. (mem[id].num_pages - 1) : j \in DOMAIN mem[id].allocated_indices
        /\ \A j \in 0 .. (mem[id].num_l2_tables * L2_TABLE_SIZE - 1) :
              j \in DOMAIN mem[id].l2_tables

\* a Memory at both of its limits: the next new page is refused with
\* MEM_ERR_PAGE_LIMIT
C25_Witness ==
    /\ mem[1].live
    /\ mem[1].max_pages = TotalPages /\ mem[1].num_pages = mem[1].max_pages
    /\ mem[1].max_l2_tables = MaxL2Arg /\ mem[1].num_l2_tables = mem[1].max_l2_tables
    /\ \E a \in Addresses :
          AllocatePage(mem[1], store, a).status = MEM_ERR_PAGE_LIMIT

\* the page a successful allocate_page took from the free list (UNMAPPED_PAGE
\* when the call took none)
PageTaken(m, s, address) ==
    LET r == AllocatePage(m, s, address)
    IN  IF r.status = MEM_SUCCESS /\ r.store.num_available_pages < s.num_available_pages
        THEN Lookup(r.mem, address)
        ELSE UNMAPPED_PAGE

(* C26: the store's free list is LIFO. A successful allocation takes the index    *)
(* at the top of the free prefix (a fresh store of N pages hands out N-1, then    *)
(* N-2, ...), and when a page p is released as the last page pushed by a reset(), *)
(* the next successful allocation by any Memory on that store receives p.         *)
C26_FreeListLifo ==
    /\ \A id \in LiveIds : \A a \in Addresses :
          LET p == PageTaken(mem[id], store, a)
          IN  p # UNMAPPED_PAGE =>
                /\ p = store.available_pages[store.num_available_pages - 1]
                /\ store.available_pages = PageStoreNew(TotalPages).available_pages =>
                      p = store.num_available_pages - 1
    /\ \A id \in LiveIds :
          mem[id].num_pages > 0 =>
            LET r == Reset(mem[id], store)
                last == mem[id].allocated_indices[mem[id].num_pages - 1]
            IN  \A id2 \in LiveIds : \A a \in Addresses :
                  LET p == PageTaken(IF id2 = id THEN r.mem ELSE mem[id2], r.store, a)
                  IN  p # UNMAPPED_PAGE => p = last

\* Memory 1 holds both pages of the store, taken top first, and Memory 2 is live
\* with room for a page: after a reset of Memory 1 the page it took last is the
\* one Memory 2 receives
C26_Witness ==
    /\ mem[1].live /\ mem[2].live
    /\ mem[1].num_pages = 2
    /\ mem[1].allocated_indices[0] = 1 /\ mem[1].allocated_indices[1] = 0
    /\ PageTaken(mem[2], Reset(mem[1], store).store, 0) = 0

(* C27: PageStore.instance_count always equals the number of live Memories       *)
(* (constructed by Memory::new on this store and not yet dropped): Memory::new    *)
(* increments it by 1, and dropping a Memory decrements it by 1 after returning   *)
(* all of that Memory's pages to the free list.                                   *)
C27_InstanceCount ==
    /\ store.instance_count = Cardinality(LiveIds)
    /\ \A id \in LiveIds :
          LET s == DropStore(mem[id], store)
          IN  /\ s.instance_count = store.instance_count - 1
              /\ FreePages(s) = FreePages(store) \cup OwnedPages(mem[id])
              /\ s.num_available_pages = store.num_available_pages + mem[id].num_pages

\* two live Memories on the store, one of them holding a page
C27_Witness ==
    /\ LiveIds = {1, 2}
    /\ store.instance_count = 2
    /\ mem[1].num_pages = 1
    /\ mem[2].num_pages = 0

(* C28: dropping a PageStore is fatal (panic) if and only if its instance_count  *)
(* is above 0: a store can be torn down without error only after every Memory     *)
(* created on it has been dropped.                                                *)
C28_StoreDropPanics ==
    store # NoStore =>
        /\ PageStoreDrop(store).panic <=> store.instance_count > 0
        /\ PageStoreDrop(store).panic <=> LiveIds # {}
        /\ ~PageStoreDrop(store).panic => PageStoreDrop(store).store = NoStore
        /\ halted = "panic" => LiveIds # {}

\* the store was dropped while one of the two Memories created on it was still
\* live, and the program panicked
C28_Witness ==
    /\ halted = "panic"
    /\ store.instance_count = 1
    /\ LiveIds = {2}
    /\ mem[2].num_pages = 1

(* C29: dropping a Module is fatal (panic) if and only if its instance_count is  *)
(* not 0: a Module can be torn down without error only after every Instance       *)
(* attached to it has detached or been dropped, and then the code region is       *)
(* unmapped.                                                                      *)
C29_ModuleDropPanics ==
    /\ \A m \in LiveMods :
          LET r == ModuleDrop(modules[m])
          IN  /\ r.panic <=> modules[m].instance_count # 0
              /\ r.panic <=> AttachedTo(m) # {}
              /\ ~r.panic => (~r.module.live /\ r.module.prot = "none")
    /\ halted = "panic" => \E m \in LiveMods : AttachedTo(m) # {}

\* Module 1 was dropped while Instance 1 was attached to it and the program
\* panicked; Instance 2 is live and detached
C29_Witness ==
    /\ halted = "panic"
    /\ modules[1].live /\ modules[1].instance_count = 1
    /\ AttachedTo(1) = {1}
    /\ instances[2].live /\ instances[2].module = NULL
    /\ ~modules[2].live

\* the bytes hold the ARM64 RET word, C0 03 5F D6, at a word boundary
ContainsRet(bytes) ==
    \E i \in 1 .. (Len(bytes) - 3) :
        i % 4 = 1 /\ SubSeq(bytes, i, i + 3) = <<192, 3, 95, 214>>

C31_SlotIsCallersMemory ==
    \A i \in LiveInsts :
        CallFunction(instances[i], modules).called =>
            modules[instances[i].module].memory_ptr = i

C33_OwnedDisjoint ==
    \A id1 \in LiveIds, id2 \in LiveIds :
        id1 # id2 => OwnedPages(mem[id1]) \cap OwnedPages(mem[id2]) = {}

\* each of the two Memories holds one page, and the order of the free list shows
\* that both pages went through a reset before
C33_Witness ==
    /\ LiveIds = {1, 2}
    /\ OwnedPages(mem[1]) = {1}
    /\ OwnedPages(mem[2]) = {0}
    /\ store.available_pages[0] = 1

\* every byte of physical page p of the store is 0
PageIsZero(s, p) ==
    \A b \in 0 .. (PAGE_SIZE - 1) : s.page_memory[p * PAGE_SIZE + b] = 0

\* what Memory m reads over the whole address space, in one read from address 0
View(m, s) == Read(m, s, 0, Garbage(ADDRESS_SPACE, 1))

\* the byte write(address, buffer) puts at address a (-1 if a is outside the range)
WrittenAt(address, buffer, a) ==
    LET hits == {i \in 1 .. Len(buffer) : WrappingAdd(address, i - 1) = a}
    IN  IF hits = {} THEN 0 - 1
        ELSE buffer[CHOOSE i \in hits : \A j \in hits : j <= i]

(* C34: Memories sharing a PageStore are isolated. Every byte a Memory M reads    *)
(* is 0 or the value most recently written to that address through M since M's    *)
(* last reset: a page M takes reads as zeros, also when another Memory's reset or  *)
(* drop released it; a write through M changes what M reads only in the written    *)
(* range; M's reset makes M read zeros; and allocate_page, write, reset and drop   *)
(* on other Memories never change what M reads.                                    *)
C34_Isolation ==
    /\ \A p \in FreePages(store) : PageIsZero(store, p)
    /\ \A id \in LiveIds :
          LET v == View(mem[id], store)
          IN
          /\ View(Reset(mem[id], store).mem, Reset(mem[id], store).store) = Zeros(ADDRESS_SPACE)
          /\ \A a \in PageBases :
                /\ Lookup(mem[id], a) = UNMAPPED_PAGE => v[a + 1] = 0
                /\ LET r == AllocatePage(mem[id], store, a)
                   IN  View(r.mem, r.store) = v
                /\ \A b \in OneByteBuffers :
                      LET r == Write(mem[id], store, a, b)
                          w == View(r.mem, r.store)
                      IN  \A x \in Addresses : w[x + 1] \in {v[x + 1], WrittenAt(a, b, x)}
          /\ \A o \in LiveIds \ {id} :
                /\ View(mem[id], Reset(mem[o], store).store) = v
                /\ View(mem[id], DropStore(mem[o], store)) = v
                /\ \A a \in PageBases :
                      /\ View(mem[id], AllocatePage(mem[o], store, a).store) = v
                      /\ \A b \in OneByteBuffers :
                            View(mem[id], Write(mem[o], store, a, b).store) = v
                /\ \A a \in PageBases :
                      LET s1 == Reset(mem[o], store).store
                          r == AllocatePage(mem[id], s1, a)
                      IN  (Lookup(mem[id], a) = UNMAPPED_PAGE /\ r.status = MEM_SUCCESS) =>
                            /\ PageIsZero(r.store, Lookup(r.mem, a))
                            /\ ByteAt(r.mem, r.store, a) = 0

\* Memory 1 reads a written byte at address 0 while Memory 2 has address 0 mapped
\* and reads 0 there; the order of the free list shows that the pages went
\* through a reset before
C34_Witness ==
    /\ LiveIds = {1, 2}
    /\ ByteAt(mem[1], store, 0) = 1
    /\ Lookup(mem[2], 0) # UNMAPPED_PAGE
    /\ ByteAt(mem[2], store, 0) = 0
    /\ store.available_pages[0] = 1

\* the sum of num_pages over the Memories ids
RECURSIVE HeldPages(_)
HeldPages(ids) ==
    IF ids = {} THEN 0
    ELSE LET id == CHOOSE x \in ids : TRUE
         IN  mem[id].num_pages + HeldPages(ids \ {id})

(* C35: page conservation. For a PageStore created with T pages, in every         *)
(* reachable state num_available_pages plus the sum of num_pages over all live    *)
(* Memories equals T, and the free prefix available_pages[0..num_available_pages) *)
(* holds no index twice, so returning pages in reset never writes past the free   *)
(* list's capacity T.                                                             *)
C35_PageConservation ==
    /\ store.num_available_pages + HeldPages(LiveIds) = TotalPages
    /\ Cardinality(FreePages(store)) = store.num_available_pages
    /\ \A id \in LiveIds :
          /\ store.num_available_pages + mem[id].num_pages <= TotalPages
          /\ Reset(mem[id], store).store.num_available_pages <= TotalPages
          /\ DOMAIN Reset(mem[id], store).store.available_pages = 0 .. (TotalPages - 1)

\* Memory 1 holds one page, Memory 2 none, one page is free, and the order of
\* the free list shows that pages were returned by a reset before
C35_Witness ==
    /\ LiveIds = {1, 2}
    /\ mem[1].num_pages = 1
    /\ mem[2].num_pages = 0
    /\ store.num_available_pages = 1
    /\ store.available_pages[0] = 1

(* C36: set_code writes compiled bytes into the code buffer only while the       *)
(* region's protection is read/write: no write to the buffer happens after an     *)
(* earlier successful set_code has switched the region to read/execute, and the   *)
(* region is never writable and executable at the same time.                      *)
C36_WriteOnlyWhileWritable ==
    \A m \in LiveMods :
        /\ modules[m].prot \in {"rw", "rx"}
        /\ \A n \in CodeLens, o \in RxStoreOutcomes :
              LET r == SetCode(modules[m], n, o)
              IN  (r.fault \/ r.result = "Ok") => modules[m].prot = "rw"

\* the L1 slots of a Memory that have an L2 table
MappedL1(m) == {i \in DOMAIN m.l1_table : m.l1_table[i] # UNMAPPED_L2_TABLE}

(* C37: in every reachable state of a Memory the mapped l1_table entries (those   *)
(* not 0xFF) are pairwise distinct and are exactly the values 0..num_l2_tables-1,  *)
(* so two different L1 regions never share an L2 table and num_l2_tables is the    *)
(* number of mapped L1 slots.                                                      *)
C37_L1EntriesDistinct ==
    \A id \in LiveIds :
        LET m == mem[id]
        IN  /\ \A i \in MappedL1(m), j \in MappedL1(m) :
                  i # j => m.l1_table[i] # m.l1_table[j]
            /\ {m.l1_table[i] : i \in MappedL1(m)} = 0 .. (m.num_l2_tables - 1)
            /\ Cardinality(MappedL1(m)) = m.num_l2_tables

\* the second L1 slot got the first L2 table and the first L1 slot the second
C37_Witness ==
    /\ mem[1].live
    /\ mem[1].l1_table[1] = 0
    /\ mem[1].l1_table[0] = 1
    /\ mem[1].num_l2_tables = 2

(* C38: an allocate_page call that returns a non-SUCCESS status never changes    *)
(* num_pages, allocated_indices, any L2 table entry or the PageStore's free list; *)
(* a NO_L2_TABLES result changes nothing at all, and the only state a PAGE_LIMIT   *)
(* or NO_PAGES_AVAILABLE result may change is the assignment of a previously       *)
(* unused L2 table to the address's L1 slot (num_l2_tables incremented by 1).      *)
C38_FailedAllocateEffects ==
    \A id \in LiveIds, a \in Addresses :
        LET m == mem[id]
            r == AllocatePage(m, store, a)
        IN  r.status # MEM_SUCCESS =>
              /\ r.mem.num_pages = m.num_pages
              /\ r.mem.allocated_indices = m.allocated_indices
              /\ r.mem.l2_tables = m.l2_tables
              /\ r.store = store
              /\ r.status = MEM_ERR_NO_L2_TABLES => r.mem = m
              /\ r.status \in {MEM_ERR_PAGE_LIMIT, MEM_ERR_NO_PAGES_AVAILABLE} =>
                    \/ r.mem = m
                    \/ /\ m.l1_table[L1Idx(a)] = UNMAPPED_L2_TABLE
                       /\ r.mem = [m EXCEPT !.l1_table[L1Idx(a)] = m.num_l2_tables,
                                            !.num_l2_tables = @ + 1]

\* a Memory at its page limit with a free L1 slot and a spare L2 table: the
\* refused allocate_page assigns the table
C38_Witness ==
    /\ mem[1].live
    /\ mem[1].num_pages = 1 /\ mem[1].max_pages = 1
    /\ store.num_available_pages > 0
    /\ \E a \in Addresses :
          LET r == AllocatePage(mem[1], store, a)
          IN  /\ r.status = MEM_ERR_PAGE_LIMIT
              /\ r.mem.num_l2_tables = mem[1].num_l2_tables + 1

(* C39: for every 32-bit word w every field of decode(w) lies in its encodable  *)
(* range: register fields are at most 31, shift amounts at most 31, I-type and    *)
(* S-type immediates lie in [-2048, 2047], branch immediates are even and lie in  *)
(* [-4096, 4094], JAL immediates are even and lie in [-1048576, 1048574], and     *)
(* U-type immediates are below 2^20.                                              *)
C39_DecodedFieldsInRange ==
    (word # NoWord /\ insn # NoInsn /\ insn # Panic /\ insn.op # "Unsupported") =>
        /\ BadRegisters(insn) = {}
        /\ \A f \in {"rd", "rs1", "rs2", "shamt"} \cap DOMAIN insn : insn[f] >= 0
        /\ ImmediateFits(insn)
        /\ insn.op \in UpperOps => insn.imm >= 0

\* decode returned the branch with the largest offset, all offset bits set but
\* the sign, and registers 31
C39_Witness ==
    /\ word = MakeWord(99, 31, 0, 31, 31, 63)
    /\ insn = SType("Beq", 31, 31, 4094)

====
